---- MODULE Spec2Model ----
(***************************************************************************)
(* A model of wn/lmf.py, the reader and writer of WN-LMF documents.        *)
(*                                                                         *)
(* A file is its first two lines (the XML declaration and the DOCTYPE)     *)
(* and the tree of its root element.  Python values are modelled as:       *)
(*   str            a TLA+ string                                          *)
(*   None           the string None (no document text is that string)      *)
(*   Optional[obj]  a sequence of length 0 (None) or 1 (the object)        *)
(*   list           a sequence                                             *)
(*   dict           a function                                             *)
(* An attribute name is a pair <<prefix, local>> as written in a file and  *)
(* <<namespace uri, local>> once parsed.                                   *)
(***************************************************************************)
EXTENDS Integers, Sequences, FiniteSets, TLC

None == "None"

\* a local assignment `x = value` followed by the statements that use x
Bind(value, rest(_)) == rest(value)

\* ---------------------------------------------------------------------
\* The interpreter the module is run by.  Two of its properties decide what
\* the code does: debug is __debug__ (false under `python -O`, which removes
\* every assert statement), accelerator tells whether xml.etree.ElementTree
\* took Element from the C module _elementtree or kept its own class.
VARIABLE runtime

Runtimes == [debug : BOOLEAN, accelerator : BOOLEAN]

\* ---------------------------------------------------------------------
\* Bytes of a header line.  A line is a sequence of chunks: a quote
\* character, a whitespace character, a byte that is not valid UTF-8, or a
\* maximal run of other characters.
DQ == "\""
SQ == "'"
BADBYTE == "\\xff"
Whitespace == {" ", "\t", "\r", "\n"}

_XMLDECL ==
  <<"<?xml", " ", "version=", DQ, "1.0", DQ, " ", "encoding=", DQ, "UTF-8", DQ, "?>">>

_SCHEMAS == ("1.0" :> "http://globalwordnet.github.io/schemas/WN-LMF-1.0.dtd")
         @@ ("1.1" :> "http://globalwordnet.github.io/schemas/WN-LMF-1.1.dtd")

Versions == DOMAIN _SCHEMAS

_DOCTYPE(schema) ==
  <<"<!DOCTYPE", " ", "LexicalResource", " ", "SYSTEM", " ", DQ, schema, DQ, ">">>

\* _DOCTYPES maps a document-type line to its version; DoctypeVersion is
\* the lookup, None when the line is no key of the map.
DoctypeVersion(line) ==
  IF \E v \in Versions : _DOCTYPE(_SCHEMAS[v]) = line
  THEN CHOOSE v \in Versions : _DOCTYPE(_SCHEMAS[v]) = line
  ELSE None

_DC_URIS == ("1.0" :> "http://purl.org/dc/elements/1.1/")
         @@ ("1.1" :> "http://globalwordnet.github.io/schemas/dc/")

_DC_ATTRS ==
  <<"contributor", "coverage", "creator", "date", "description", "format",
    "identifier", "publisher", "relation", "rights", "source", "subject",
    "title", "type">>

\* bytes.rstrip(): drop the trailing whitespace chunks
RECURSIVE rstrip(_)
rstrip(line) ==
  IF line # <<>> /\ line[Len(line)] \in Whitespace
  THEN rstrip(SubSeq(line, 1, Len(line) - 1))
  ELSE line

\* bytes.replace(b"'", b'"')
replaceQuotes(line) == [i \in 1..Len(line) |-> IF line[i] = SQ THEN DQ ELSE line[i]]

\* fh.readline() for the n-th call: the n-th line, or b'' at end of file
readline(lines, n) == IF n <= Len(lines) THEN lines[n] ELSE <<>>

\* bytes.decode('utf-8') succeeds iff every byte sequence is valid UTF-8
Decodable(line) == \A i \in 1..Len(line) : line[i] # BADBYTE

\* _read_header: [err |-> "" or the exception's class, version |-> str]
_read_header(lines) ==
  LET xmldecl == replaceQuotes(rstrip(readline(lines, 1)))
      doctype == replaceQuotes(rstrip(readline(lines, 2)))
  IN  IF xmldecl # _XMLDECL
      THEN [err |-> "LMFError", version |-> None]
      ELSE IF ~Decodable(doctype)
      THEN [err |-> "UnicodeDecodeError", version |-> None]
      ELSE IF DoctypeVersion(doctype) = None
      THEN [err |-> "LMFError", version |-> None]
      ELSE [err |-> "", version |-> DoctypeVersion(doctype)]

\* ---------------------------------------------------------------------
\* XML.  An element of a file is [tag, attrs, text, kids]: attrs is the
\* sequence of <<name, value>> pairs in written order, text is the character
\* data before the first child (None when there is none), kids the children.
\* A file is [lines, dcns, root]: dcns is the namespace uri the root element
\* binds to the prefix dc.

A(local) == <<"", local>>

\* the expanded name ElementTree gives an attribute
QName(name, dcns) == IF name[1] = "dc" THEN <<dcns, name[2]>> ELSE name

\* Element.attrib of a parsed element
Attrib(attrs, dcns) ==
  [q \in {QName(attrs[i][1], dcns) : i \in 1..Len(attrs)} |->
     attrs[CHOOSE i \in 1..Len(attrs) : QName(attrs[i][1], dcns) = q][2]]

\* dict.get(key), default None
Get(attrib, key) == IF key \in DOMAIN attrib THEN attrib[key] ELSE None

\* ET.iterparse(source, events=('start', 'end')): the events of the root
\* element in document order; both events of an element carry the element
RECURSIVE ElemEvents(_, _), KidsEvents(_, _)
ElemEvents(elem, dcns) ==
  LET e == [tag |-> elem.tag, attrib |-> Attrib(elem.attrs, dcns), text |-> elem.text]
  IN  <<[event |-> "start", elem |-> e]>>
      \o KidsEvents(elem.kids, dcns)
      \o <<[event |-> "end", elem |-> e]>>
KidsEvents(kids, dcns) ==
  IF kids = <<>> THEN <<>>
  ELSE ElemEvents(Head(kids), dcns) \o KidsEvents(Tail(kids), dcns)

iterparse(f) == ElemEvents(f.root, f.dcns)

\* ---------------------------------------------------------------------
\* XMLEventIterator over the event sequence ev: the cursor p is the index of
\* the event held in _next; p > Len(ev) is the exhausted iterator.

Exhausted(ev, p) == p > Len(ev)

\* XMLEventIterator.starts
starts(ev, p, tags) ==
  IF Exhausted(ev, p) THEN FALSE
  ELSE ev[p].event = "start" /\ ev[p].elem.tag \in tags

\* XMLEventIterator.start: [err, pos, elem]
start(ev, p, tags) ==
  IF Exhausted(ev, p) THEN [err |-> "StopIteration", pos |-> p, elem |-> <<>>]
  ELSE IF ev[p].event # "start" THEN [err |-> "LMFError", pos |-> p + 1, elem |-> <<>>]
  ELSE IF ev[p].elem.tag \notin tags THEN [err |-> "LMFError", pos |-> p + 1, elem |-> <<>>]
  ELSE [err |-> "", pos |-> p + 1, elem |-> ev[p].elem]

\* XMLEventIterator.end: [err, pos, elem]
end(ev, p, tags) ==
  IF Exhausted(ev, p) THEN [err |-> "StopIteration", pos |-> p, elem |-> <<>>]
  ELSE IF ev[p].event # "end" THEN [err |-> "LMFError", pos |-> p + 1, elem |-> <<>>]
  ELSE IF ev[p].elem.tag \notin tags THEN [err |-> "LMFError", pos |-> p + 1, elem |-> <<>>]
  ELSE [err |-> "", pos |-> p + 1, elem |-> ev[p].elem]

\* ---------------------------------------------------------------------
\* wn.constants: the vocabularies the loader validates against.
SENSE_RELATIONS == {"antonym", "also", "derivation", "similar"}
SENSE_SYNSET_RELATIONS == {"domain_topic", "exemplifies", "other"}
SYNSET_RELATIONS == {"hypernym", "hyponym", "also", "similar", "other"}
ADJPOSITIONS == {"a", "ip", "p"}
PARTS_OF_SPEECH == {"n", "v", "a", "r", "s", "c", "p", "x", "u"}

\* ---------------------------------------------------------------------
\* Conversions of the Python runtime, over the texts of the documents.

\* str.lower()
LowerOf == ("True" :> "true") @@ ("TRUE" :> "true") @@ ("False" :> "false")
          @@ ("FALSE" :> "false") @@ ("Yes" :> "yes")
lower(s) == IF s \in DOMAIN LowerOf THEN LowerOf[s] ELSE s

\* int(text): the decimal literals int() accepts, with their values
IntOf == ("7" :> 7) @@ ("007" :> 7) @@ (" 7 " :> 7) @@ ("+7" :> 7)
      @@ ("0" :> 0) @@ ("-1" :> -1) @@ ("12" :> 12)
\* [err, val]: TypeError for None, ValueError for any other text
int(text) ==
  IF text = None THEN [err |-> "TypeError", val |-> 0]
  ELSE IF text \in DOMAIN IntOf THEN [err |-> "", val |-> IntOf[text]]
  ELSE [err |-> "ValueError", val |-> 0]

\* str(n) of an int
Digits == <<"0", "1", "2", "3", "4", "5", "6", "7", "8", "9">>
RECURSIVE strNat(_)
strNat(n) == IF n < 10 THEN Digits[n + 1] ELSE strNat(n \div 10) \o Digits[(n % 10) + 1]
strInt(n) == IF n < 0 THEN "-" \o strNat(-n) ELSE strNat(n)

\* float(text): the literals float() accepts, each with repr() of its value
\* (a float is modelled by its repr); FloatInRange: the reprs within [0, 1]
FloatOf == ("0.5" :> "0.5") @@ (".5" :> "0.5") @@ ("1" :> "1.0") @@ ("1.0" :> "1.0")
        @@ ("0" :> "0.0") @@ ("0.0" :> "0.0") @@ ("2" :> "2.0") @@ ("2.0" :> "2.0")
        @@ ("-0.5" :> "-0.5")
FloatInRange == {"0.0", "0.5", "1.0"}

\* str.split(): the whitespace-separated words of the texts of the documents
SplitOf == ("" :> <<>>) @@ ("s1" :> <<"s1">>) @@ ("s2" :> <<"s2">>) @@ ("s3" :> <<"s3">>)
        @@ ("s1 s2" :> <<"s1", "s2">>) @@ ("s2 s1" :> <<"s2", "s1">>)
        @@ (" s1  s2 " :> <<"s1", "s2">>) @@ ("s1 s3" :> <<"s1", "s3">>)
        @@ ("s2 s3" :> <<"s2", "s3">>) @@ ("s1 s2 s3" :> <<"s1", "s2", "s3">>)
        @@ ("s1 s1" :> <<"s1", "s1">>)
split(s) == SplitOf[s]

\* ' '.join(words)
RECURSIVE join(_)
join(words) ==
  IF words = <<>> THEN ""
  ELSE IF Len(words) = 1 THEN words[1]
  ELSE words[1] \o " " \o join(Tail(words))

\* ---------------------------------------------------------------------
\* The loader.  Every _load_* operator reads the events ev from the cursor p
\* and returns [err, pos, val, w]: err is "" or the class of the exception
\* raised, pos the cursor afterwards, val the value returned, w the number
\* of LMFWarning diagnostics issued by the call.

\* attrs[name] raises KeyError for a name the element does not carry
Missing(attrs, names) == \E n \in names : A(n) \notin DOMAIN attrs

Ok(p, val, w) == [err |-> "", pos |-> p, val |-> val, w |-> w]
Raise(err, p, w) == [err |-> err, pos |-> p, val |-> <<>>, w |-> w]

\* a faulty variant of _get_literal: a value outside the choices is replaced
\* by the empty string
_get_literal_or_empty(value, choices) ==
  [val |-> IF value = None \/ value \notin choices THEN "" ELSE value,
   w   |-> IF value # None /\ value \notin choices THEN 1 ELSE 0]

\* _get_literal: [val, w]
_get_literal(value, choices) ==
  [val |-> IF value = None THEN "" ELSE value,
   w   |-> IF value # None /\ value \notin choices THEN 1 ELSE 0]

\* _get_bool: [val, w]
_get_bool(value) ==
  LET lit == _get_literal(lower(value), {"true", "false"})
  IN  [val |-> (lit.val = "true"), w |-> lit.w]

\* Metadata._fields
MetaFields == _DC_ATTRS \o <<"status", "note", "confidence">>

\* _DC_QNAME_PAIRS[version], the qualified names only
DcQNames(version) == [i \in 1..Len(_DC_ATTRS) |-> <<_DC_URIS[version], _DC_ATTRS[i]>>]

\* _get_metadata: [val, w]; val is Optional[Metadata], a Metadata the tuple
\* of its 17 slots
_get_metadata(attrs, version) ==
  LET dc    == [i \in 1..Len(_DC_ATTRS) |-> Get(attrs, DcQNames(version)[i])]
      raw   == Get(attrs, A("confidenceScore"))
      parse == raw \in DOMAIN FloatOf
      warn  == A("confidenceScore") \in DOMAIN attrs
               /\ (~parse \/ (runtime.debug /\ FloatOf[raw] \notin FloatInRange))
      conf  == IF A("confidenceScore") \notin DOMAIN attrs THEN None
               ELSE IF parse THEN FloatOf[raw] ELSE raw
      metas == dc \o <<Get(attrs, A("status")), Get(attrs, A("note")), conf>>
  IN  [val |-> IF \E i \in 1..Len(metas) : metas[i] # None THEN <<metas>> ELSE <<>>,
       w   |-> IF warn THEN 1 ELSE 0]

\* a faulty variant of _load_tags: the loop is left with no Tag read, the
\* cursor on the Tag its peek has seen
_load_tags_unread(ev, p) == Ok(p, <<>>, 0)

\* _load_tags
RECURSIVE _load_tags_loop(_, _, _)
_load_tags_loop(ev, p, tags) ==
  IF starts(ev, p, {"Tag"})
  THEN LET e == end(ev, p + 1, {"Tag"})
       IN  IF e.err # "" THEN Raise(e.err, e.pos, 0)
           ELSE IF Missing(e.elem.attrib, {"category"}) THEN Raise("KeyError", e.pos, 0)
           ELSE _load_tags_loop(ev, e.pos,
                  Append(tags, [text |-> e.elem.text,
                                category |-> e.elem.attrib[A("category")]]))
  ELSE Ok(p, tags, 0)
_load_tags(ev, p) == _load_tags_loop(ev, p, <<>>)

\* _load_lemma
_load_lemma(ev, p) ==
  LET s == start(ev, p, {"Lemma"})
  IN  IF s.err # "" THEN Raise(s.err, s.pos, 0)
      ELSE IF Missing(s.elem.attrib, {"writtenForm", "partOfSpeech"})
      THEN Raise("KeyError", s.pos, 0)
      ELSE
      LET attrs == s.elem.attrib
          pos   == _get_literal(attrs[A("partOfSpeech")], PARTS_OF_SPEECH)
          tags  == _load_tags(ev, s.pos)
      IN  IF tags.err # "" THEN Raise(tags.err, tags.pos, pos.w)
          ELSE
          LET e == end(ev, tags.pos, {"Lemma"})
          IN  IF e.err # "" THEN Raise(e.err, e.pos, pos.w)
              ELSE Ok(e.pos,
                      [form |-> attrs[A("writtenForm")], pos |-> pos.val,
                       script |-> Get(attrs, A("script")), tags |-> tags.val],
                      pos.w)

\* _load_forms
RECURSIVE _load_forms_loop(_, _, _)
_load_forms_loop(ev, p, forms) ==
  IF starts(ev, p, {"Form"})
  THEN LET attrs == ev[p].elem.attrib
           tags  == _load_tags(ev, p + 1)
       IN  IF Missing(attrs, {"writtenForm"}) THEN Raise("KeyError", p + 1, 0)
           ELSE IF tags.err # "" THEN Raise(tags.err, tags.pos, 0)
           ELSE
           LET e == end(ev, tags.pos, {"Form"})
           IN  IF e.err # "" THEN Raise(e.err, e.pos, 0)
               ELSE _load_forms_loop(ev, e.pos,
                      Append(forms, [form |-> attrs[A("writtenForm")],
                                     script |-> Get(attrs, A("script")),
                                     tags |-> tags.val]))
  ELSE Ok(p, forms, 0)
_load_forms(ev, p) == _load_forms_loop(ev, p, <<>>)

\* _load_sense_relations
RECURSIVE _load_sense_relations_loop(_, _, _, _, _)
_load_sense_relations_loop(ev, p, version, relations, w) ==
  IF starts(ev, p, {"SenseRelation"})
  THEN LET e == end(ev, p + 1, {"SenseRelation"})
       IN  IF e.err # "" THEN Raise(e.err, e.pos, w)
           ELSE IF Missing(e.elem.attrib, {"relType"}) THEN Raise("KeyError", e.pos, w)
           ELSE
           LET attrs   == e.elem.attrib
               reltype == attrs[A("relType")]
               meta    == _get_metadata(attrs, version)
           IN  IF ~(reltype \in SENSE_RELATIONS \/ reltype \in SENSE_SYNSET_RELATIONS)
               THEN Raise("LMFError", e.pos, w)
               ELSE IF Missing(attrs, {"target"}) THEN Raise("KeyError", e.pos, w)
               ELSE _load_sense_relations_loop(ev, e.pos, version,
                      Append(relations, [target |-> attrs[A("target")], type |-> reltype,
                                         meta |-> meta.val]),
                      w + meta.w)
  ELSE Ok(p, relations, w)
_load_sense_relations(ev, p, version) == _load_sense_relations_loop(ev, p, version, <<>>, 0)

\* _load_examples
RECURSIVE _load_examples_loop(_, _, _, _, _)
_load_examples_loop(ev, p, version, examples, w) ==
  IF starts(ev, p, {"Example"})
  THEN LET e == end(ev, p + 1, {"Example"})
       IN  IF e.err # "" THEN Raise(e.err, e.pos, w)
           ELSE
           LET attrs == e.elem.attrib
               meta  == _get_metadata(attrs, version)
           IN  _load_examples_loop(ev, e.pos, version,
                 Append(examples, [text |-> e.elem.text,
                                   language |-> Get(attrs, A("language")),
                                   meta |-> meta.val]),
                 w + meta.w)
  ELSE Ok(p, examples, w)
_load_examples(ev, p, version) == _load_examples_loop(ev, p, version, <<>>, 0)

\* _load_counts
RECURSIVE _load_counts_loop(_, _, _, _, _)
_load_counts_loop(ev, p, version, counts, w) ==
  IF starts(ev, p, {"Count"})
  THEN LET e == end(ev, p + 1, {"Count"})
       IN  IF e.err # "" THEN Raise(e.err, e.pos, w)
           ELSE
           LET attrs  == e.elem.attrib
               parsed == int(e.elem.text)
               value  == IF parsed.err = "" THEN parsed.val ELSE -1
               w1     == IF parsed.err = "ValueError" THEN w + 1 ELSE w
               meta   == _get_metadata(attrs, version)
           IN  IF parsed.err \notin {"", "ValueError"}
               THEN Raise(parsed.err, e.pos, w)
               ELSE _load_counts_loop(ev, e.pos, version,
                      Append(counts, [value |-> value, meta |-> meta.val]),
                      w1 + meta.w)
  ELSE Ok(p, counts, w)
_load_counts(ev, p, version) == _load_counts_loop(ev, p, version, <<>>, 0)

\* _load_syntactic_behaviours
RECURSIVE _load_syntactic_behaviours_loop(_, _, _)
_load_syntactic_behaviours_loop(ev, p, sbs) ==
  IF starts(ev, p, {"SyntacticBehaviour"})
  THEN LET e == end(ev, p + 1, {"SyntacticBehaviour"})
       IN  IF e.err # "" THEN Raise(e.err, e.pos, 0)
           ELSE IF Missing(e.elem.attrib, {"subcategorizationFrame"})
           THEN Raise("KeyError", e.pos, 0)
           ELSE
           LET attrs  == e.elem.attrib
               senses == IF A("senses") \in DOMAIN attrs THEN attrs[A("senses")] ELSE ""
           IN  _load_syntactic_behaviours_loop(ev, e.pos,
                 Append(sbs, [frame |-> attrs[A("subcategorizationFrame")],
                              senses |-> split(senses)]))
  ELSE Ok(p, sbs, 0)
_load_syntactic_behaviours(ev, p, version) == _load_syntactic_behaviours_loop(ev, p, <<>>)

\* _load_senses
RECURSIVE _load_senses_loop(_, _, _, _, _, _)
_load_senses_loop(ev, p, external, version, senses, w) ==
  IF starts(ev, p, {"Sense"})
  THEN LET attrs == ev[p].elem.attrib
           lex   == _get_bool(IF A("lexicalized") \in DOMAIN attrs
                              THEN attrs[A("lexicalized")] ELSE "true")
           adj   == _get_literal(Get(attrs, A("adjposition")), ADJPOSITIONS)
           meta  == _get_metadata(attrs, version)
       IN  IF Missing(attrs, {"id", "synset"}) THEN Raise("KeyError", p + 1, w)
           ELSE
           Bind(_load_sense_relations(ev, p + 1, version), LAMBDA relations :
           IF relations.err # "" THEN Raise(relations.err, relations.pos, w + relations.w)
           ELSE
           Bind(_load_examples(ev, relations.pos, version), LAMBDA examples :
           IF examples.err # ""
           THEN Raise(examples.err, examples.pos, w + relations.w + examples.w)
           ELSE
           Bind(_load_counts(ev, examples.pos, version), LAMBDA counts :
           IF counts.err # ""
           THEN Raise(counts.err, counts.pos, w + relations.w + examples.w + counts.w)
           ELSE
           Bind(end(ev, counts.pos, {"Sense"}), LAMBDA e :
           IF e.err # ""
           THEN Raise(e.err, e.pos,
                      w + relations.w + examples.w + counts.w + lex.w + adj.w + meta.w)
           ELSE _load_senses_loop(ev, e.pos, external, version,
                  Append(senses,
                    [id |-> attrs[A("id")], synset |-> attrs[A("synset")],
                     relations |-> relations.val, examples |-> examples.val,
                     counts |-> counts.val, lexicalized |-> lex.val,
                     adjposition |-> adj.val, meta |-> meta.val,
                     external |-> FALSE]),
                  w + relations.w + examples.w + counts.w + lex.w + adj.w + meta.w)))))
  ELSE IF external /\ starts(ev, p, {"ExternalSense"})
  THEN LET attrs == ev[p].elem.attrib
       IN  IF Missing(attrs, {"id"}) THEN Raise("KeyError", p + 1, w)
           ELSE
           Bind(_load_sense_relations(ev, p + 1, version), LAMBDA relations :
           IF relations.err # "" THEN Raise(relations.err, relations.pos, w + relations.w)
           ELSE
           Bind(_load_examples(ev, relations.pos, version), LAMBDA examples :
           IF examples.err # ""
           THEN Raise(examples.err, examples.pos, w + relations.w + examples.w)
           ELSE
           Bind(_load_counts(ev, examples.pos, version), LAMBDA counts :
           IF counts.err # ""
           THEN Raise(counts.err, counts.pos, w + relations.w + examples.w + counts.w)
           ELSE
           Bind(end(ev, counts.pos, {"ExternalSense"}), LAMBDA e :
           IF e.err # ""
           THEN Raise(e.err, e.pos, w + relations.w + examples.w + counts.w)
           ELSE _load_senses_loop(ev, e.pos, external, version,
                  Append(senses,
                    [id |-> attrs[A("id")], synset |-> "",
                     relations |-> relations.val, examples |-> examples.val,
                     counts |-> counts.val, lexicalized |-> TRUE,
                     adjposition |-> "", meta |-> <<>>,
                     external |-> TRUE]),
                  w + relations.w + examples.w + counts.w)))))
  ELSE Ok(p, senses, w)

\* a faulty variant of _load_senses: Sense.as_external does not mark the
\* sense as external
_load_senses_unmarked(ev, p, external, version) ==
  Bind(_load_senses_loop(ev, p, external, version, <<>>, 0), LAMBDA r :
  IF r.err # "" THEN r
  ELSE Ok(r.pos, [i \in 1..Len(r.val) |-> [r.val[i] EXCEPT !.external = FALSE]], r.w))

_load_senses(ev, p, external, version) ==
  _load_senses_loop(ev, p, external, version, <<>>, 0)

\* _load_lexical_entries: val is [entries, frames]
RECURSIVE _load_lexical_entries_loop(_, _, _, _, _, _, _)
_load_lexical_entries_loop(ev, p, extension, version, entries, frames, w) ==
  IF starts(ev, p, {"LexicalEntry"})
  THEN LET attrs == ev[p].elem.attrib
           meta  == _get_metadata(attrs, version)
       IN  IF Missing(attrs, {"id"}) THEN Raise("KeyError", p + 1, w)
           ELSE
           Bind(_load_lemma(ev, p + 1), LAMBDA lemma :
           IF lemma.err # "" THEN Raise(lemma.err, lemma.pos, w + lemma.w)
           ELSE
           Bind(_load_forms(ev, lemma.pos), LAMBDA forms :
           IF forms.err # "" THEN Raise(forms.err, forms.pos, w + lemma.w)
           ELSE
           Bind(_load_senses(ev, forms.pos, FALSE, version), LAMBDA senses :
           IF senses.err # "" THEN Raise(senses.err, senses.pos, w + lemma.w + senses.w)
           ELSE
           Bind(_load_syntactic_behaviours(ev, senses.pos, version), LAMBDA sbs :
           IF sbs.err # "" THEN Raise(sbs.err, sbs.pos, w + lemma.w + senses.w + meta.w)
           ELSE
           Bind(end(ev, sbs.pos, {"LexicalEntry"}), LAMBDA e :
           IF e.err # "" THEN Raise(e.err, e.pos, w + lemma.w + senses.w + meta.w)
           ELSE _load_lexical_entries_loop(ev, e.pos, extension, version,
                  Append(entries,
                    [id |-> attrs[A("id")], lemma |-> <<lemma.val>>,
                     forms |-> forms.val, senses |-> senses.val,
                     meta |-> meta.val, external |-> FALSE]),
                  frames \o sbs.val, w + lemma.w + senses.w + meta.w))))))
  ELSE IF extension /\ starts(ev, p, {"ExternalLexicalEntry"})
  THEN LET attrs == ev[p].elem.attrib
       IN  IF Missing(attrs, {"id"}) THEN Raise("KeyError", p + 1, w)
           ELSE
           Bind(_load_forms(ev, p + 1), LAMBDA forms :
           IF forms.err # "" THEN Raise(forms.err, forms.pos, w)
           ELSE
           Bind(_load_senses(ev, forms.pos, TRUE, version), LAMBDA senses :
           IF senses.err # "" THEN Raise(senses.err, senses.pos, w + senses.w)
           ELSE
           Bind(_load_syntactic_behaviours(ev, senses.pos, version), LAMBDA sbs :
           IF sbs.err # "" THEN Raise(sbs.err, sbs.pos, w + senses.w)
           ELSE
           Bind(end(ev, sbs.pos, {"ExternalLexicalEntry"}), LAMBDA e :
           IF e.err # "" THEN Raise(e.err, e.pos, w + senses.w)
           ELSE _load_lexical_entries_loop(ev, e.pos, extension, version,
                  Append(entries,
                    [id |-> attrs[A("id")], lemma |-> <<>>,
                     forms |-> forms.val, senses |-> senses.val,
                     meta |-> <<>>, external |-> TRUE]),
                  frames \o sbs.val, w + senses.w)))))
  ELSE Ok(p, [entries |-> entries, frames |-> frames], w)

\* a faulty variant of _load_lexical_entries: an external entry is not
\* appended to the entries
_load_lexical_entries_internal(ev, p, extension, version) ==
  Bind(_load_lexical_entries_loop(ev, p, extension, version, <<>>, <<>>, 0), LAMBDA r :
  IF r.err # "" THEN r
  ELSE Ok(r.pos,
          [entries |-> SelectSeq(r.val.entries, LAMBDA entry : ~entry.external),
           frames  |-> r.val.frames],
          r.w))

_load_lexical_entries(ev, p, extension, version) ==
  _load_lexical_entries_loop(ev, p, extension, version, <<>>, <<>>, 0)

\* _load_definitions
RECURSIVE _load_definitions_loop(_, _, _, _, _)
_load_definitions_loop(ev, p, version, definitions, w) ==
  IF starts(ev, p, {"Definition"})
  THEN LET e == end(ev, p + 1, {"Definition"})
       IN  IF e.err # "" THEN Raise(e.err, e.pos, w)
           ELSE
           LET attrs == e.elem.attrib
               meta  == _get_metadata(attrs, version)
           IN  _load_definitions_loop(ev, e.pos, version,
                 Append(definitions,
                   [text |-> e.elem.text, language |-> Get(attrs, A("language")),
                    source_sense |-> Get(attrs, A("sourceSense")), meta |-> meta.val]),
                 w + meta.w)
  ELSE Ok(p, definitions, w)
_load_definitions(ev, p, version) == _load_definitions_loop(ev, p, version, <<>>, 0)

\* _load_ilidefinition: val is Optional[ILIDefinition]
_load_ilidefinition(ev, p, version) ==
  IF starts(ev, p, {"ILIDefinition"})
  THEN LET e == end(ev, p + 1, {"ILIDefinition"})
       IN  IF e.err # "" THEN Raise(e.err, e.pos, 0)
           ELSE
           LET meta == _get_metadata(e.elem.attrib, version)
           IN  Ok(e.pos, <<[text |-> e.elem.text, meta |-> meta.val]>>, meta.w)
  ELSE Ok(p, <<>>, 0)

\* _load_synset_relations
RECURSIVE _load_synset_relations_loop(_, _, _, _, _)
_load_synset_relations_loop(ev, p, version, relations, w) ==
  IF starts(ev, p, {"SynsetRelation"})
  THEN LET e == end(ev, p + 1, {"SynsetRelation"})
       IN  IF e.err # "" THEN Raise(e.err, e.pos, w)
           ELSE IF Missing(e.elem.attrib, {"relType"}) THEN Raise("KeyError", e.pos, w)
           ELSE
           LET attrs   == e.elem.attrib
               reltype == attrs[A("relType")]
               meta    == _get_metadata(attrs, version)
           IN  IF reltype \notin SYNSET_RELATIONS
               THEN Raise("LMFError", e.pos, w)
               ELSE IF Missing(attrs, {"target"}) THEN Raise("KeyError", e.pos, w)
               ELSE _load_synset_relations_loop(ev, e.pos, version,
                      Append(relations, [target |-> attrs[A("target")], type |-> reltype,
                                         meta |-> meta.val]),
                      w + meta.w)
  ELSE Ok(p, relations, w)
_load_synset_relations(ev, p, version) == _load_synset_relations_loop(ev, p, version, <<>>, 0)

\* _load_synsets
RECURSIVE _load_synsets_loop(_, _, _, _, _, _)
_load_synsets_loop(ev, p, extension, version, synsets, w) ==
  IF starts(ev, p, {"Synset"})
  THEN LET attrs == ev[p].elem.attrib
           pos   == _get_literal(Get(attrs, A("partOfSpeech")), PARTS_OF_SPEECH)
           lex   == _get_bool(IF A("lexicalized") \in DOMAIN attrs
                              THEN attrs[A("lexicalized")] ELSE "true")
           meta  == _get_metadata(attrs, version)
       IN  IF Missing(attrs, {"id", "ili"}) THEN Raise("KeyError", p + 1, w)
           ELSE
           Bind(_load_definitions(ev, p + 1, version), LAMBDA definitions :
           IF definitions.err # ""
           THEN Raise(definitions.err, definitions.pos, w + pos.w + definitions.w)
           ELSE
           Bind(_load_ilidefinition(ev, definitions.pos, version), LAMBDA ilidef :
           IF ilidef.err # ""
           THEN Raise(ilidef.err, ilidef.pos, w + pos.w + definitions.w + ilidef.w)
           ELSE
           Bind(_load_synset_relations(ev, ilidef.pos, version), LAMBDA relations :
           IF relations.err # ""
           THEN Raise(relations.err, relations.pos,
                      w + pos.w + definitions.w + ilidef.w + relations.w)
           ELSE
           Bind(_load_examples(ev, relations.pos, version), LAMBDA examples :
           IF examples.err # ""
           THEN Raise(examples.err, examples.pos,
                      w + pos.w + definitions.w + ilidef.w + relations.w + examples.w)
           ELSE
           Bind(end(ev, examples.pos, {"Synset"}), LAMBDA e :
           IF e.err # ""
           THEN Raise(e.err, e.pos,
                      w + pos.w + definitions.w + ilidef.w + relations.w + examples.w
                        + lex.w + meta.w)
           ELSE _load_synsets_loop(ev, e.pos, extension, version,
                  Append(synsets,
                    [id |-> attrs[A("id")], ili |-> attrs[A("ili")], pos |-> pos.val,
                     definitions |-> definitions.val, ili_definition |-> ilidef.val,
                     relations |-> relations.val, examples |-> examples.val,
                     lexicalized |-> lex.val, meta |-> meta.val,
                     external |-> FALSE]),
                  w + pos.w + definitions.w + ilidef.w + relations.w + examples.w
                    + lex.w + meta.w))))))
  ELSE IF extension /\ starts(ev, p, {"ExternalSynset"})
  THEN LET attrs == ev[p].elem.attrib
       IN  IF Missing(attrs, {"id"}) THEN Raise("KeyError", p + 1, w)
           ELSE
           Bind(_load_definitions(ev, p + 1, version), LAMBDA definitions :
           IF definitions.err # ""
           THEN Raise(definitions.err, definitions.pos, w + definitions.w)
           ELSE
           Bind(_load_synset_relations(ev, definitions.pos, version), LAMBDA relations :
           IF relations.err # ""
           THEN Raise(relations.err, relations.pos, w + definitions.w + relations.w)
           ELSE
           Bind(_load_examples(ev, relations.pos, version), LAMBDA examples :
           IF examples.err # ""
           THEN Raise(examples.err, examples.pos,
                      w + definitions.w + relations.w + examples.w)
           ELSE
           Bind(end(ev, examples.pos, {"ExternalSynset"}), LAMBDA e :
           IF e.err # ""
           THEN Raise(e.err, e.pos, w + definitions.w + relations.w + examples.w)
           ELSE _load_synsets_loop(ev, e.pos, extension, version,
                  Append(synsets,
                    [id |-> attrs[A("id")], ili |-> "", pos |-> "",
                     definitions |-> definitions.val, ili_definition |-> <<>>,
                     relations |-> relations.val, examples |-> examples.val,
                     lexicalized |-> TRUE, meta |-> <<>>,
                     external |-> TRUE]),
                  w + definitions.w + relations.w + examples.w)))))
  ELSE Ok(p, synsets, w)
_load_synsets(ev, p, extension, version) ==
  _load_synsets_loop(ev, p, extension, version, <<>>, 0)

\* _load_dependency
_load_dependency(ev, p, tag) ==
  Bind(start(ev, p, {tag}), LAMBDA s :
  IF s.err # "" THEN Raise(s.err, s.pos, 0)
  ELSE
  Bind(end(ev, s.pos, {tag}), LAMBDA e :
  IF e.err # "" THEN Raise(e.err, e.pos, 0)
  ELSE IF Missing(e.elem.attrib, {"id", "version"}) THEN Raise("KeyError", e.pos, 0)
  ELSE Ok(e.pos,
          [id |-> e.elem.attrib[A("id")], version |-> e.elem.attrib[A("version")],
           url |-> Get(e.elem.attrib, A("url"))],
          0)))

\* the loop `while events.starts('Requires')` of _load_lexicon
RECURSIVE _load_requires_loop(_, _, _)
_load_requires_loop(ev, p, requires) ==
  IF starts(ev, p, {"Requires"})
  THEN Bind(_load_dependency(ev, p, "Requires"), LAMBDA d :
       IF d.err # "" THEN Raise(d.err, d.pos, 0)
       ELSE _load_requires_loop(ev, d.pos, Append(requires, d.val)))
  ELSE Ok(p, requires, 0)

\* _load_lexicon, lines 517-518 (version 1.0): val is
\* [lex_root, extension, extends, requires]
_load_lexicon_root_1_0(ev, p) ==
  Bind(start(ev, p, {"Lexicon"}), LAMBDA s :
  IF s.err # "" THEN Raise(s.err, s.pos, 0)
  ELSE Ok(s.pos, [lex_root |-> s.elem, extension |-> FALSE,
                  extends |-> <<>>, requires |-> <<>>], 0))

\* _load_lexicon, lines 519-525 (later versions)
_load_lexicon_root_1_1(ev, p) ==
  Bind(start(ev, p, {"Lexicon", "LexiconExtension"}), LAMBDA s :
  IF s.err # "" THEN Raise(s.err, s.pos, 0)
  ELSE
  Bind(IF s.elem.tag = "LexiconExtension"
       THEN _load_dependency(ev, s.pos, "Extends")
       ELSE Ok(s.pos, <<>>, 0), LAMBDA extends :
  IF extends.err # "" THEN Raise(extends.err, extends.pos, 0)
  ELSE
  Bind(_load_requires_loop(ev, extends.pos, <<>>), LAMBDA requires :
  IF requires.err # "" THEN Raise(requires.err, requires.pos, 0)
  ELSE Ok(requires.pos,
          [lex_root |-> s.elem, extension |-> (s.elem.tag = "LexiconExtension"),
           extends |-> IF s.elem.tag = "LexiconExtension"
                       THEN <<extends.val>> ELSE <<>>,
           requires |-> requires.val], 0))))

\* a faulty variant of the head of _load_lexicon: the version is not tested
_load_lexicon_head_any_version(ev, p, version) == _load_lexicon_root_1_1(ev, p)

\* _load_lexicon, lines 517-525
_load_lexicon_head(ev, p, version) ==
  IF version = "1.0" THEN _load_lexicon_root_1_0(ev, p)
  ELSE _load_lexicon_root_1_1(ev, p)

\* the dict `attrs = lex_root.attrib` after the loops of _load_lexical_entries
\* and _load_synsets: each iteration ends with lex_root.clear().  The
\* Element of _elementtree drops its dict and attrs keeps the items;
\* Element.clear of xml/etree/ElementTree.py is self.attrib.clear(), which
\* empties the dict attrs names.
attrs_after_clear(lex_root, cleared) ==
  IF cleared /\ ~runtime.accelerator THEN [q \in {} |-> None] ELSE lex_root.attrib

\* _load_lexicon
_load_lexicon(ev, p, version) ==
  Bind(_load_lexicon_head(ev, p, version), LAMBDA head :
  IF head.err # "" THEN Raise(head.err, head.pos, 0)
  ELSE
  Bind(_load_lexical_entries(ev, head.pos, head.val.extension, version), LAMBDA entries :
  IF entries.err # "" THEN Raise(entries.err, entries.pos, entries.w)
  ELSE
  Bind(_load_synsets(ev, entries.pos, head.val.extension, version), LAMBDA synsets :
  IF synsets.err # "" THEN Raise(synsets.err, synsets.pos, entries.w + synsets.w)
  ELSE
  Bind(attrs_after_clear(head.val.lex_root,
                         entries.val.entries # <<>> \/ synsets.val # <<>>), LAMBDA attrs :
  IF Missing(attrs, {"id", "label", "language", "email", "license", "version"})
  THEN Raise("KeyError", synsets.pos, entries.w + synsets.w)
  ELSE
  Bind(_get_metadata(attrs, version), LAMBDA meta :
  Bind(end(ev, synsets.pos, {head.val.lex_root.tag}), LAMBDA e :
  IF e.err # "" THEN Raise(e.err, e.pos, entries.w + synsets.w + meta.w)
  ELSE Ok(e.pos,
          [id |-> attrs[A("id")], label |-> attrs[A("label")],
           language |-> attrs[A("language")], email |-> attrs[A("email")],
           license |-> attrs[A("license")], version |-> attrs[A("version")],
           url |-> Get(attrs, A("url")), citation |-> Get(attrs, A("citation")),
           lexical_entries |-> entries.val.entries, synsets |-> synsets.val,
           syntactic_behaviours |-> entries.val.frames,
           extends |-> head.val.extends, requires |-> head.val.requires,
           meta |-> meta.val],
          entries.w + synsets.w + meta.w)))))))

\* the loop `while events.starts('Lexicon', 'LexiconExtension')` of load
RECURSIVE _load_lexicons_loop(_, _, _, _, _)
_load_lexicons_loop(ev, p, version, lexicons, w) ==
  IF starts(ev, p, {"Lexicon", "LexiconExtension"})
  THEN Bind(_load_lexicon(ev, p, version), LAMBDA lex :
       IF lex.err # "" THEN Raise(lex.err, lex.pos, w + lex.w)
       ELSE _load_lexicons_loop(ev, lex.pos, version, Append(lexicons, lex.val),
                                w + lex.w))
  ELSE Ok(p, lexicons, w)

\* what load raises: [err, lexicons, w, pos, version]
LoadRaise(version, err, w, p) ==
  [err |-> err, lexicons |-> <<>>, w |-> w, pos |-> p, version |-> version]

\* load: [err, lexicons, w, pos, version]; pos is the cursor over the events
\* when load returns or raises (0: the events were never opened)
load(f) ==
  Bind(_read_header(f.lines), LAMBDA header :
  IF header.err # "" THEN LoadRaise(None, header.err, 0, 0)
  ELSE
  Bind(iterparse(f), LAMBDA ev :
  Bind(start(ev, 1, {"LexicalResource"}), LAMBDA root :
  IF root.err # "" THEN LoadRaise(header.version, root.err, 0, root.pos)
  ELSE
  Bind(_load_lexicons_loop(ev, root.pos, header.version, <<>>, 0), LAMBDA lexicons :
  IF lexicons.err # ""
  THEN LoadRaise(header.version, lexicons.err, lexicons.w, lexicons.pos)
  ELSE
  Bind(end(ev, lexicons.pos, {root.elem.tag}), LAMBDA e :
  IF e.err # "" THEN LoadRaise(header.version, e.err, lexicons.w, e.pos)
  ELSE [err |-> "", lexicons |-> lexicons.val, w |-> lexicons.w,
        pos |-> Len(ev) + 1, version |-> header.version])))))

\* ---------------------------------------------------------------------
\* The serializer.  A _build_* operator returns the element it builds; the
\* whitespace _indent puts between elements is determined by the nesting
\* and is not part of the element.

Elem(tag, attrs, text, kids) == [tag |-> tag, attrs |-> attrs, text |-> text, kids |-> kids]

\* the items of a dict built by inserting the pairs in order: a key set
\* again keeps its place and takes the new value
RECURSIVE DictItems(_)
DictItems(pairs) ==
  IF pairs = <<>> THEN <<>>
  ELSE LET init == DictItems(SubSeq(pairs, 1, Len(pairs) - 1))
           last == pairs[Len(pairs)]
       IN  IF \E i \in 1..Len(init) : init[i][1] = last[1]
           THEN [i \in 1..Len(init) |-> IF init[i][1] = last[1] THEN last ELSE init[i]]
           ELSE Append(init, last)

\* the pairs of a sequence that satisfy keep, in order
RECURSIVE SelectPairs(_, _)
SelectPairs(pairs, keep) ==
  IF pairs = <<>> THEN <<>>
  ELSE IF keep[1]
  THEN <<pairs[1]>> \o SelectPairs(Tail(pairs), Tail(keep))
  ELSE SelectPairs(Tail(pairs), Tail(keep))

\* _meta_dict: the items of the dict, in order
_meta_dict(m) ==
  IF m # <<>>
  THEN SelectPairs([i \in 1..Len(MetaFields) |-> <<<<"dc", MetaFields[i]>>, m[1][i]>>],
                   [i \in 1..Len(MetaFields) |-> m[1][i] # None])
  ELSE <<>>

\* the truth value of an Optional[str]
Truthy(v) == v # None /\ v # ""

\* the entries of a dict literal whose optional keys are set when cond holds
Opt(cond, name, value) == IF cond THEN <<<<A(name), value>>>> ELSE <<>>

\* _build_tag
_build_tag(tag) == Elem("Tag", <<<<A("category"), tag.category>>>>, tag.text, <<>>)

\* _build_lemma; lemma is the Lemma itself
_build_lemma(lemma) ==
  Elem("Lemma",
       DictItems(<<<<A("writtenForm"), lemma.form>>>>
                 \o Opt(Truthy(lemma.script), "script", lemma.script)
                 \o <<<<A("partOfSpeech"), lemma.pos>>>>),
       None,
       [i \in 1..Len(lemma.tags) |-> _build_tag(lemma.tags[i])])

\* _build_form
_build_form(form) ==
  Elem("Form",
       DictItems(<<<<A("writtenForm"), form.form>>>>
                 \o Opt(Truthy(form.script), "script", form.script)),
       None,
       [i \in 1..Len(form.tags) |-> _build_tag(form.tags[i])])

\* _build_sense_relation
_build_sense_relation(relation) ==
  Elem("SenseRelation",
       DictItems(<<<<A("target"), relation.target>>, <<A("relType"), relation.type>>>>
                 \o _meta_dict(relation.meta)),
       None, <<>>)

\* _build_example
_build_example(example) ==
  Elem("Example", Opt(Truthy(example.language), "language", example.language),
       example.text, <<>>)

\* _build_count
_build_count(count) ==
  Elem("Count", DictItems(_meta_dict(count.meta)), strInt(count.value), <<>>)

\* _build_sense
_build_sense(sense) ==
  Elem("Sense",
       DictItems(<<<<A("id"), sense.id>>, <<A("synset"), sense.synset>>>>
                 \o _meta_dict(sense.meta)
                 \o Opt(~sense.lexicalized, "lexicalized", "false")
                 \o Opt(Truthy(sense.adjposition), "adjposition", sense.adjposition)),
       None,
       [i \in 1..Len(sense.relations) |-> _build_sense_relation(sense.relations[i])]
       \o [i \in 1..Len(sense.examples) |-> _build_example(sense.examples[i])]
       \o [i \in 1..Len(sense.counts) |-> _build_count(sense.counts[i])])

\* _build_syntactic_behaviour_1_0
_build_syntactic_behaviour_1_0(frame, senses) ==
  Elem("SyntacticBehaviour",
       <<<<A("subcategorizationFrame"), frame>>, <<A("senses"), join(senses)>>>>,
       None, <<>>)

\* the elements of a sequence that are in a set, in order
RECURSIVE Filter(_, _)
Filter(seq, set) ==
  IF seq = <<>> THEN <<>>
  ELSE IF Head(seq) \in set THEN <<Head(seq)>> \o Filter(Tail(seq), set)
  ELSE Filter(Tail(seq), set)

Range(seq) == {seq[i] : i \in 1..Len(seq)}

\* the sense ids of the documents in the order sorted() gives them
SortedIds == <<"s1", "s2", "s3">>
sorted(set) == Filter(SortedIds, set)

\* the order in which a set of str is iterated depends on the hash seed of
\* the process: a seed is modelled as a permutation of the sense ids
HashSeeds == {seed \in [1..Len(SortedIds) -> Range(SortedIds)] : Range(seed) = Range(SortedIds)}
SetIter(set, seed) == Filter(seed, set)

\* sbmap of _dump_lexicon, lines 863-867: sense id -> the frames listing it,
\* one per listing
RECURSIVE SbMapGet(_, _)
SbMapGet(sbs, sense_id) ==
  IF sbs = <<>> THEN <<>>
  ELSE [i \in 1..Len(Filter(Head(sbs).senses, {sense_id})) |-> Head(sbs)]
       \o SbMapGet(Tail(sbs), sense_id)

\* a faulty variant of the loop of _dump_lexical_entry: the sense list of the
\* frame is written whole, not intersected with the sense ids of the entry
RECURSIVE _dump_entry_frames_all_senses(_, _, _)
_dump_entry_frames_all_senses(order, senses, sbs) ==
  IF order = <<>> THEN <<>>
  ELSE LET listed == SbMapGet(sbs, Head(order))
       IN  [i \in 1..Len(listed) |->
              _build_syntactic_behaviour_1_0(
                listed[i].frame, sorted(Range(listed[i].senses)))]
           \o _dump_entry_frames_all_senses(Tail(order), senses, sbs)

\* the loop of _dump_lexical_entry, lines 893-900, over the sense ids in
\* iteration order
RECURSIVE _dump_entry_frames(_, _, _)
_dump_entry_frames(order, senses, sbs) ==
  IF order = <<>> THEN <<>>
  ELSE LET listed == SbMapGet(sbs, Head(order))
       IN  [i \in 1..Len(listed) |->
              _build_syntactic_behaviour_1_0(
                listed[i].frame, sorted(senses \cap Range(listed[i].senses)))]
           \o _dump_entry_frames(Tail(order), senses, sbs)

\* _dump_lexical_entry: [err, elem]; sbs are the frames sbmap was built
\* from (none unless version is 1.0)
_dump_lexical_entry(entry, sbs, version, seed) ==
  IF entry.lemma = <<>>
  THEN [err |-> "AttributeError", elem |-> <<>>]
  ELSE LET senses == {entry.senses[i].id : i \in 1..Len(entry.senses)}
       IN  [err  |-> "",
            elem |-> Elem("LexicalEntry",
                       DictItems(<<<<A("id"), entry.id>>>> \o _meta_dict(entry.meta)),
                       None,
                       <<_build_lemma(entry.lemma[1])>>
                       \o [i \in 1..Len(entry.forms) |-> _build_form(entry.forms[i])]
                       \o [i \in 1..Len(entry.senses) |-> _build_sense(entry.senses[i])]
                       \o (IF version = "1.0"
                           THEN _dump_entry_frames(SetIter(senses, seed), senses, sbs)
                           ELSE <<>>))]

\* _build_definition
_build_definition(definition) ==
  Elem("Definition",
       DictItems(Opt(Truthy(definition.language), "language", definition.language)
                 \o Opt(Truthy(definition.source_sense), "sourceSense", definition.source_sense)
                 \o _meta_dict(definition.meta)),
       definition.text, <<>>)

\* _build_ili_definition
_build_ili_definition(ili_definition) ==
  Elem("ILIDefinition", DictItems(_meta_dict(ili_definition.meta)), ili_definition.text, <<>>)

\* _build_synset_relation
_build_synset_relation(relation) ==
  Elem("SynsetRelation",
       DictItems(<<<<A("target"), relation.target>>, <<A("relType"), relation.type>>>>
                 \o _meta_dict(relation.meta)),
       None, <<>>)

\* _dump_synset: the element written
_dump_synset(synset, version) ==
  Elem("Synset",
       DictItems(<<<<A("id"), synset.id>>>>
                 \o Opt(Truthy(synset.ili), "ili", synset.ili)
                 \o Opt(Truthy(synset.pos), "partOfSpeech", synset.pos)
                 \o _meta_dict(synset.meta)
                 \o Opt(~synset.lexicalized, "lexicalized", "false")),
       None,
       [i \in 1..Len(synset.definitions) |-> _build_definition(synset.definitions[i])]
       \o (IF synset.ili_definition # <<>>
           THEN <<_build_ili_definition(synset.ili_definition[1])>> ELSE <<>>)
       \o [i \in 1..Len(synset.relations) |-> _build_synset_relation(synset.relations[i])]
       \o [i \in 1..Len(synset.examples) |-> _build_example(synset.examples[i])])

\* the first exception raised by a sequence of [err, ...] results, "" if none
FirstErr(results) ==
  IF \E i \in 1..Len(results) : results[i].err # ""
  THEN results[CHOOSE i \in 1..Len(results) :
                 /\ results[i].err # ""
                 /\ \A j \in 1..(i - 1) : results[j].err = ""].err
  ELSE ""

\* a faulty variant of the two loops of _dump_lexicon: the synsets are
\* written before the entries
_dump_lexicon_synsets_first(entries, synsets) == synsets \o entries

\* the two loops of _dump_lexicon, lines 869-873: what they print, given the
\* elements of the entries and of the synsets
_dump_lexicon_children(entries, synsets) == entries \o synsets

\* _dump_lexicon: [err, elem]
_dump_lexicon(lexicon, version, seed) ==
  LET sbs == IF version = "1.0" THEN lexicon.syntactic_behaviours ELSE <<>>
      written(entries, err) ==
        IF err # "" THEN [err |-> err, elem |-> <<>>]
        ELSE [err  |-> "",
              elem |-> Elem("Lexicon",
                         DictItems(<<<<A("id"), lexicon.id>>, <<A("label"), lexicon.label>>,
                                     <<A("language"), lexicon.language>>,
                                     <<A("email"), lexicon.email>>,
                                     <<A("license"), lexicon.license>>,
                                     <<A("version"), lexicon.version>>>>
                                   \o Opt(Truthy(lexicon.url), "url", lexicon.url)
                                   \o Opt(Truthy(lexicon.citation), "citation", lexicon.citation)
                                   \o _meta_dict(lexicon.meta)),
                         None,
                         _dump_lexicon_children(
                           [i \in 1..Len(entries) |-> entries[i].elem],
                           [i \in 1..Len(lexicon.synsets) |->
                              _dump_synset(lexicon.synsets[i], version)]))]
      with_entries(entries) == written(entries, FirstErr(entries))
  IN  with_entries([i \in 1..Len(lexicon.lexical_entries) |->
                      _dump_lexical_entry(lexicon.lexical_entries[i], sbs, version, seed)])

\* dump: [err, file]; file is the document written when dump returns
dump(lexicons, version, seed) ==
  LET written(lexs, err) ==
        IF err # "" THEN [err |-> err, file |-> <<>>]
        ELSE [err  |-> "",
              file |-> [lines |-> <<_XMLDECL \o <<"\n">>,
                                    _DOCTYPE(_SCHEMAS[version]) \o <<"\n">>>>,
                        dcns  |-> _DC_URIS[version],
                        root  |-> Elem("LexicalResource", <<>>, None,
                                       [i \in 1..Len(lexs) |-> lexs[i].elem])]]
      with_lexicons(lexs) == written(lexs, FirstErr(lexs))
  IN  with_lexicons([i \in 1..Len(lexicons) |-> _dump_lexicon(lexicons[i], version, seed)])

\* ---------------------------------------------------------------------
\* The scanner.

\* the elements of a tree in the order of their start tags
RECURSIVE StartElems(_), KidsStartElems(_)
StartElems(elem) == <<elem>> \o KidsStartElems(elem.kids)
KidsStartElems(kids) ==
  IF kids = <<>> THEN <<>>
  ELSE StartElems(Head(kids)) \o KidsStartElems(Tail(kids))

\* the attrs dict expat hands the start handler: names as written
RawAttrib(attrs) ==
  [n \in {attrs[i][1] : i \in 1..Len(attrs)} |->
     attrs[CHOOSE i \in 1..Len(attrs) : attrs[i][1] = n][2]]

\* the handler `start` of scan_lexicons applied to the elements in order:
\* [err, infos]; an info is [attrs, counts, extends], extends the Optional
\* pair recorded under the key 'extends'
RECURSIVE scan_start(_, _)
scan_start(elems, infos) ==
  IF elems = <<>> THEN [err |-> "", infos |-> infos]
  ELSE
  LET name  == Head(elems).tag
      attrs == RawAttrib(Head(elems).attrs)
      n     == Len(infos)
  IN  IF name \in {"Lexicon", "LexiconExtension"}
      THEN scan_start(Tail(elems),
                      Append(infos, [attrs |-> attrs, counts |-> <<>>, extends |-> <<>>]))
      ELSE IF name = "Extends"
      THEN IF n = 0 THEN [err |-> "IndexError", infos |-> <<>>]
           ELSE IF Missing(attrs, {"id", "version"}) THEN [err |-> "KeyError", infos |-> <<>>]
           ELSE scan_start(Tail(elems),
                  [infos EXCEPT ![n].extends = <<<<attrs[A("id")], attrs[A("version")]>>>>])
      ELSE IF n > 0
      THEN LET counts == infos[n].counts
               old    == IF name \in DOMAIN counts THEN counts[name] ELSE 0
           IN  scan_start(Tail(elems),
                 [infos EXCEPT ![n].counts =
                    [t \in DOMAIN counts \cup {name} |-> IF t = name THEN old + 1 ELSE counts[t]]])
      ELSE scan_start(Tail(elems), infos)

\* scan_lexicons
scan_lexicons(f) == scan_start(StartElems(f.root), <<>>)

\* counts.get(tag, 0) of an info
CountOf(info, tag) == IF tag \in DOMAIN info.counts THEN info.counts[tag] ELSE 0

\* ---------------------------------------------------------------------
\* The documents checked.

At(name, value) == <<A(name), value>>
Dc(name, value) == <<<<"dc", name>>, value>>

\* children of a Sense, Synset and LexicalEntry
RelAntonym == Elem("SenseRelation", <<At("target", "s2"), At("relType", "antonym")>>, None, <<>>)
RelTopic   == Elem("SenseRelation",
                   <<At("target", "ss2"), At("relType", "domain_topic"), Dc("source", "src"),
                     At("note", "n1")>>, None, <<>>)
RelBogus   == Elem("SenseRelation", <<At("target", "s2"), At("relType", "hypernym")>>, None, <<>>)
ExPlain    == Elem("Example", <<>>, "ex one", <<>>)
ExRich     == Elem("Example", <<At("language", "en"), Dc("date", "2020")>>, "ex two", <<>>)
ExEmpty    == Elem("Example", <<>>, None, <<>>)
Count7     == Elem("Count", <<>>, "7", <<>>)
Count007   == Elem("Count", <<At("confidenceScore", "1")>>, "007", <<>>)
CountAbc   == Elem("Count", <<>>, "abc", <<>>)
CountPad   == Elem("Count", <<>>, " 7 ", <<>>)
CountNone  == Elem("Count", <<>>, None, <<>>)
TagA       == Elem("Tag", <<At("category", "tense")>>, "past", <<>>)
LemmaN     == Elem("Lemma", <<At("writtenForm", "w1"), At("partOfSpeech", "n")>>, None, <<>>)
LemmaBogus == Elem("Lemma",
                   <<At("writtenForm", "w2"), At("script", "Latn"), At("partOfSpeech", "zz")>>,
                   None, <<TagA>>)
FormA      == Elem("Form", <<At("writtenForm", "w3"), At("script", "Latn")>>, None, <<TagA, TagA>>)
FormB      == Elem("Form", <<At("writtenForm", "w4")>>, None, <<>>)
SenseS1    == Elem("Sense", <<At("id", "s1"), At("synset", "ss1")>>, None, <<>>)
SenseS3    == Elem("Sense", <<At("id", "s3"), At("synset", "ss1")>>, None, <<>>)
SenseRich  == Elem("Sense",
                   <<At("id", "s1"), At("synset", "ss1"), At("adjposition", "bogus"),
                     At("lexicalized", "False"), Dc("title", "t1"), At("status", "draft")>>,
                   None, <<RelAntonym, RelTopic, ExPlain, ExRich, Count7, Count007>>)
SenseAdj   == Elem("Sense", <<At("id", "s2"), At("synset", "ss2"), At("adjposition", "ip")>>,
                   None, <<ExEmpty>>)
SenseAbc   == Elem("Sense", <<At("id", "s3"), At("synset", "ss1"), At("adjposition", "")>>,
                   None, <<CountAbc, CountPad>>)
SenseNoCnt == Elem("Sense", <<At("id", "s3"), At("synset", "ss1")>>, None, <<Count7, CountNone>>)
SenseBadRel == Elem("Sense", <<At("id", "s3"), At("synset", "ss1")>>, None,
                    <<RelAntonym, RelBogus>>)
ExtSense   == Elem("ExternalSense", <<At("id", "s1")>>, None,
                   <<RelTopic, RelAntonym, ExRich, ExPlain, CountAbc, Count7>>)
ExtSenseS2 == Elem("ExternalSense", <<At("id", "s2")>>, None, <<>>)
Frame12    == Elem("SyntacticBehaviour",
                   <<At("subcategorizationFrame", "f1"), At("senses", " s1  s2 ")>>, None, <<>>)
Frame23    == Elem("SyntacticBehaviour",
                   <<At("subcategorizationFrame", "f2"), At("senses", "s2 s3")>>, None, <<>>)
Frame1     == Elem("SyntacticBehaviour",
                   <<At("subcategorizationFrame", "f3"), At("senses", "s1")>>, None, <<>>)
Frame0     == Elem("SyntacticBehaviour", <<At("subcategorizationFrame", "f4")>>, None, <<>>)

DefPlain   == Elem("Definition", <<>>, "def one", <<>>)
DefRich    == Elem("Definition",
                   <<At("language", "en"), At("sourceSense", "s1"), Dc("creator", "c1")>>,
                   "def two", <<>>)
IliDef     == Elem("ILIDefinition", <<At("confidenceScore", "0.5")>>, "ili def", <<>>)
SynRelHyp  == Elem("SynsetRelation", <<At("target", "ss2"), At("relType", "hypernym")>>,
                   None, <<>>)
SynRelAlso == Elem("SynsetRelation",
                   <<At("target", "ss3"), At("relType", "also"), Dc("type", "ty")>>, None, <<>>)
SynRelBogus == Elem("SynsetRelation", <<At("target", "ss2"), At("relType", "antonym")>>,
                    None, <<>>)

\* the LexicalEntry, ExternalLexicalEntry, Synset and ExternalSynset
\* elements a resource of a checked document is made of
EntryPlain   == Elem("LexicalEntry", <<At("id", "e1")>>, None, <<LemmaN, SenseS3>>)
EntryRich    == Elem("LexicalEntry", <<At("id", "e2"), Dc("title", "t2"), At("note", "n2")>>,
                     None,
                     <<LemmaBogus, FormA, FormB, SenseRich, SenseAdj, Frame12, Frame23, Frame0>>)
EntryFrame   == Elem("LexicalEntry", <<At("id", "e3")>>, None, <<LemmaN, SenseS1, Frame1>>)
EntryAbc     == Elem("LexicalEntry", <<At("id", "e4")>>, None, <<LemmaN, SenseAbc>>)
EntryNoCnt   == Elem("LexicalEntry", <<At("id", "e5")>>, None, <<LemmaN, SenseNoCnt>>)
EntryBadRel  == Elem("LexicalEntry", <<At("id", "e6")>>, None, <<LemmaN, SenseBadRel>>)
EntryNoLemma == Elem("LexicalEntry", <<At("id", "e7")>>, None, <<SenseS3>>)
EntryExtSense == Elem("LexicalEntry", <<At("id", "e8")>>, None, <<LemmaN, ExtSenseS2>>)
ExtEntry     == Elem("ExternalLexicalEntry", <<At("id", "e1")>>, None,
                     <<FormA, ExtSense, SenseAdj, Frame1>>)
ExtEntryBare == Elem("ExternalLexicalEntry", <<At("id", "e2")>>, None, <<ExtSenseS2>>)
SynPlain     == Elem("Synset", <<At("id", "ss1"), At("ili", "i1"), At("partOfSpeech", "n")>>,
                     None, <<>>)
SynRich      == Elem("Synset",
                     <<At("id", "ss2"), At("ili", ""), At("partOfSpeech", "zz"),
                       At("lexicalized", "false"), Dc("subject", "sb"),
                       At("confidenceScore", "2")>>,
                     None, <<DefPlain, DefRich, IliDef, SynRelHyp, SynRelAlso, ExPlain>>)
SynBadRel    == Elem("Synset", <<At("id", "ss3"), At("ili", "i3")>>, None,
                     <<SynRelHyp, SynRelBogus>>)
ExtSyn       == Elem("ExternalSynset", <<At("id", "ss1")>>, None,
                     <<DefRich, SynRelAlso, SynRelHyp, ExRich>>)

\* an entry whose two senses are each listed by one frame, a sense and a
\* synset whose lexicalized is no boolean literal, metadata attributes that
\* are empty
SenseYes     == Elem("Sense", <<At("id", "s1"), At("synset", "ss1"), At("lexicalized", "Yes")>>,
                     None, <<>>)
EntryTwoFrames == Elem("LexicalEntry", <<At("id", "e9"), At("note", "")>>, None,
                       <<LemmaN, SenseYes, SenseAdj, Frame1, Frame23, Frame0>>)
SynYes       == Elem("Synset",
                     <<At("id", "ss4"), At("ili", "i4"), At("lexicalized", "Yes"),
                       Dc("title", ""), At("status", "")>>,
                     None, <<DefPlain>>)

ResourceKids ==
  {EntryPlain, EntryRich, EntryFrame, EntryAbc, EntryNoCnt, EntryBadRel, EntryNoLemma,
   EntryExtSense, ExtEntry, ExtEntryBare, SynPlain, SynRich, SynBadRel, ExtSyn}

\* the sequences of at most n elements of a set
RECURSIVE SeqsUpTo(_, _)
SeqsUpTo(set, n) ==
  IF n = 0 THEN {<<>>}
  ELSE LET shorter == SeqsUpTo(set, n - 1)
       IN  shorter \cup {Append(q, x) : q \in {r \in shorter : Len(r) = n - 1}, x \in set}

\* the start tag of a resource and its Extends and Requires children
LexAttrsOf(id) ==
  <<At("id", id), At("label", "Lex"), At("language", "en"), At("email", "a@b"),
    At("license", "cc"), At("version", "1")>>
LexAttrs == LexAttrsOf("lex")
LexAttrsRich ==
  LexAttrs \o <<At("url", "http://u"), Dc("publisher", "pb"), At("status", "ok"),
                At("confidenceScore", "abc")>>
Extends   == Elem("Extends", <<At("id", "base"), At("version", "1")>>, None, <<>>)
RequiresA == Elem("Requires", <<At("id", "r1"), At("version", "2"), At("url", "http://r")>>,
                  None, <<>>)
RequiresB == Elem("Requires", <<At("id", "r2"), At("version", "3")>>, None, <<>>)

\* [tag, attrs, deps]: the start of a resource
ResourceHeads ==
  { [tag |-> "Lexicon", attrs |-> LexAttrsRich, deps |-> <<>>],
    [tag |-> "Lexicon", attrs |-> LexAttrs, deps |-> <<RequiresB>>],
    [tag |-> "LexiconExtension", attrs |-> LexAttrs, deps |-> <<Extends>>],
    [tag |-> "LexiconExtension", attrs |-> LexAttrsRich,
     deps |-> <<Extends, RequiresA, RequiresB>>],
    [tag |-> "LexiconExtension", attrs |-> LexAttrs, deps |-> <<>>],
    [tag |-> "LexiconExtension", attrs |-> LexAttrs, deps |-> <<RequiresA, Extends>>] }

Resource(head, kids) == Elem(head.tag, head.attrs, None, head.deps \o kids)

\* the two lines of a document of a version, as dump writes them
HeaderLines(version) == <<_XMLDECL \o <<"\n">>, _DOCTYPE(_SCHEMAS[version]) \o <<"\n">>>>

Document(lines, dcns, resources) ==
  [lines |-> lines, dcns |-> dcns, root |-> Elem("LexicalResource", <<>>, None, resources)]

\* bounds of the documents
MaxKids == 2
MaxLexicons == 2

\* one resource with up to MaxKids entries and synsets in any order
StructFiles ==
  { Document(HeaderLines(v), _DC_URIS[v], <<Resource(h, kids)>>) :
      v \in Versions, h \in ResourceHeads, kids \in SeqsUpTo(ResourceKids, MaxKids) }

\* up to MaxLexicons resources, the metadata namespace of either version
SomeResources ==
  { Resource([tag |-> "Lexicon", attrs |-> LexAttrsRich, deps |-> <<>>],
             <<EntryRich, SynRich>>),
    Resource([tag |-> "Lexicon", attrs |-> LexAttrsOf("lexB"), deps |-> <<>>],
             <<EntryNoCnt>>),
    Resource([tag |-> "Lexicon", attrs |-> LexAttrsOf("lexC"), deps |-> <<>>],
             <<SynBadRel>>),
    Resource([tag |-> "LexiconExtension", attrs |-> LexAttrsOf("lexD"),
              deps |-> <<Extends>>],
             <<ExtEntry, ExtSyn>>),
    Resource([tag |-> "LexiconExtension", attrs |-> LexAttrsOf("lexE"), deps |-> <<>>],
             <<>>),
    Resource([tag |-> "Lexicon", attrs |-> LexAttrsOf("lexF") \o <<At("note", "")>>,
              deps |-> <<>>],
             <<EntryTwoFrames, EntryPlain, SynYes>>),
    EntryPlain }   \* an element that is no resource
MultiFiles ==
  { Document(HeaderLines(v), _DC_URIS[u], rs) :
      v \in Versions, u \in Versions, rs \in SeqsUpTo(SomeResources, MaxLexicons) }

\* first and second lines around the declarations; a line read by readline
\* ends with its newline, and a file of fewer than two lines ends there
DeclSingle == [i \in 1..Len(_XMLDECL) |-> IF _XMLDECL[i] = DQ THEN SQ ELSE _XMLDECL[i]]
FirstLines ==
  { _XMLDECL \o <<"\n">>, _XMLDECL \o <<"\t", " ", "\n">>, DeclSingle \o <<"\r", "\n">>,
    <<" ">> \o _XMLDECL \o <<"\n">>,
    <<"<?xml", " ", "version=", DQ, "1.1", DQ, "?>", "\n">>,
    <<"<?xml", " ", "version=", DQ, "1.0", DQ, "?>", "\n">>,
    <<"<?xml", " ", "version=", DQ, "1.0", DQ, " ", "encoding=", DQ, "utf-8", DQ, "?>", "\n">>,
    <<BADBYTE, "\n">>, <<"\n">> }
DoctypeSingle(v) ==
  [i \in 1..Len(_DOCTYPE(_SCHEMAS[v])) |->
     IF _DOCTYPE(_SCHEMAS[v])[i] = DQ THEN SQ ELSE _DOCTYPE(_SCHEMAS[v])[i]]
SecondLines ==
  { _DOCTYPE(_SCHEMAS["1.0"]) \o <<"\n">>, _DOCTYPE(_SCHEMAS["1.1"]) \o <<"\n">>,
    _DOCTYPE(_SCHEMAS["1.1"]) \o <<" ", "\r", "\n">>, DoctypeSingle("1.0") \o <<"\n">>,
    <<" ">> \o _DOCTYPE(_SCHEMAS["1.0"]) \o <<"\n">>,
    _DOCTYPE("http://globalwordnet.github.io/schemas/WN-LMF-1.2.dtd") \o <<"\n">>,
    <<"<LexicalResource>", "\n">>,
    <<"<!--", " ", BADBYTE, " ", "-->", "\n">>, <<"\n">> }
LineSeqs ==
  {<<>>} \cup {<<a>> : a \in FirstLines} \cup {<<a, b>> : a \in FirstLines, b \in SecondLines}
HeaderFiles ==
  { Document(lines, _DC_URIS["1.0"],
             <<Resource([tag |-> "Lexicon", attrs |-> LexAttrs, deps |-> <<>>],
                        <<EntryPlain, SynPlain>>)>>) : lines \in LineSeqs }

Files == StructFiles \cup MultiFiles \cup HeaderFiles

\* ---------------------------------------------------------------------
\* A caller that loads a file, scans it, writes the loaded lexicons with
\* dump, loads what was written and writes that again; and a caller that
\* drives an XMLEventIterator over the events of a file itself.

VARIABLES
  file,      \* the document given to load and scan_lexicons
  pc,        \* the calls made so far
  loaded,    \* what load(file) returned or raised
  infos,     \* what scan_lexicons(file) returned or raised
  target,    \* the version given to dump
  hashseed,  \* the hash seed of the process that calls dump
  out,       \* what dump wrote
  reloaded,  \* what load returned or raised for the file dump wrote
  out2,      \* what dump wrote for the reloaded lexicons
  events,    \* the events of the XMLEventIterator of the second caller
  cursor,    \* the index of the event its _next holds
  got,       \* its last call: [op, tags, at, err, elem]
  built,     \* the number of events the parser of iterparse has produced
  children,  \* the set of children each element of the tree holds
  consumed,  \* the entries, synsets and resources read to their end tag
  appended   \* the entries, synsets and lexicons appended to their lists

vars == <<file, pc, loaded, infos, target, hashseed, out, reloaded, out2, events, cursor, got,
          runtime, built, children, consumed, appended>>

NoLoad == [err |-> "unset", lexicons |-> <<>>, w |-> 0, pos |-> 0, version |-> None]
NoDump == [err |-> "unset", file |-> <<>>]
NoScan == [err |-> "unset", infos |-> <<>>]
NoCall == [op |-> "unset", tags |-> {}, at |-> 0, err |-> "", elem |-> <<>>]

Init ==
  /\ file \in Files
  /\ pc = "start"
  /\ loaded = NoLoad
  /\ infos = NoScan
  /\ target = None
  /\ hashseed = <<>>
  /\ out = NoDump
  /\ reloaded = NoLoad
  /\ out2 = NoDump
  /\ events = <<>>
  /\ cursor = 0
  /\ got = NoCall
  /\ runtime \in Runtimes
  /\ built = 0
  /\ children = <<>>
  /\ consumed = {}
  /\ appended = <<>>

\* load(source)
Load ==
  /\ pc = "start"
  /\ loaded' = load(file)
  /\ pc' = "loaded"
  /\ UNCHANGED <<file, infos, target, hashseed, out, reloaded, out2, events, cursor, got, runtime,
                 built, children, consumed, appended>>

\* scan_lexicons(source), of a file whose first two lines are the prolog
\* _read_header accepts
Scan ==
  /\ pc = "loaded"
  /\ _read_header(file.lines).err = ""
  /\ infos' = scan_lexicons(file)
  /\ pc' = "scanned"
  /\ UNCHANGED <<file, loaded, target, hashseed, out, reloaded, out2, events, cursor, got, runtime,
                 built, children, consumed, appended>>

\* dump(lexicons, destination, version) of the lexicons load returned, in a
\* process of any hash seed
Dump ==
  /\ pc = "scanned"
  /\ loaded.err = ""
  /\ \E version \in Versions, hash \in HashSeeds :
       /\ out' = dump(loaded.lexicons, version, hash)
       /\ target' = version
       /\ hashseed' = hash
  /\ pc' = "dumped"
  /\ UNCHANGED <<file, loaded, infos, reloaded, out2, events, cursor, got, runtime,
                 built, children, consumed, appended>>

\* load(destination) of the file dump wrote
Reload ==
  /\ pc = "dumped"
  /\ out.err = ""
  /\ reloaded' = load(out.file)
  /\ pc' = "reloaded"
  /\ UNCHANGED <<file, loaded, infos, target, hashseed, out, out2, events, cursor, got, runtime,
                 built, children, consumed, appended>>

\* dump of the reloaded lexicons, same version, in the same process
Redump ==
  /\ pc = "reloaded"
  /\ reloaded.err = ""
  /\ out2' = dump(reloaded.lexicons, target, hashseed)
  /\ pc' = "redumped"
  /\ UNCHANGED <<file, loaded, infos, target, hashseed, out, reloaded, events, cursor, got, runtime,
                 built, children, consumed, appended>>

Next == Load \/ Scan \/ Dump \/ Reload \/ Redump

Spec == Init /\ [][Next]_vars

\* The second caller: XMLEventIterator(ET.iterparse(source, ...)) over a
\* file of one resource at most, or of the resource of three entries and
\* synsets twice; then starts(*tags), start(*tags), end(*tags) and the loops of
\* the loader in any order, going on after an exception.  Its first call
\* may be the whole of load after the header is read.  No assert statement
\* moves the cursor: the interpreter runs them.
CursorFiles ==
  { Document(HeaderLines(v), _DC_URIS[v], rs) :
      v \in Versions,
      rs \in SeqsUpTo(SomeResources, 1)
              \cup { <<r, r>> : r \in {x \in SomeResources : Len(x.kids) >= 3} } }

TagSets ==
  { {"LexicalResource"}, {"Lexicon", "LexiconExtension"},
    {"LexicalEntry", "ExternalLexicalEntry"}, {"Lemma"}, {"Sense"}, {"Synset"} }

CursorInit ==
  /\ file \in CursorFiles
  /\ pc = "cursor"
  /\ loaded = NoLoad
  /\ infos = NoScan
  /\ target = None
  /\ hashseed = <<>>
  /\ out = NoDump
  /\ reloaded = NoLoad
  /\ out2 = NoDump
  /\ events = iterparse(file)
  /\ cursor = 1
  /\ got = NoCall
  /\ runtime \in {r \in Runtimes : r.debug}
  /\ built = 0
  /\ children = <<>>
  /\ consumed = {}
  /\ appended = <<>>

\* events.start(*tags)
CursorStart ==
  /\ pc = "cursor"
  /\ \E tags \in TagSets :
       /\ got' = [op |-> "start", tags |-> tags, at |-> cursor,
                  err |-> start(events, cursor, tags).err,
                  elem |-> start(events, cursor, tags).elem]
       /\ cursor' = start(events, cursor, tags).pos
  /\ UNCHANGED <<file, pc, loaded, infos, target, hashseed, out, reloaded, out2, events, runtime,
                 built, children, consumed, appended>>

\* events.end(*tags)
CursorEnd ==
  /\ pc = "cursor"
  /\ \E tags \in TagSets :
       /\ got' = [op |-> "end", tags |-> tags, at |-> cursor,
                  err |-> end(events, cursor, tags).err,
                  elem |-> end(events, cursor, tags).elem]
       /\ cursor' = end(events, cursor, tags).pos
  /\ UNCHANGED <<file, pc, loaded, infos, target, hashseed, out, reloaded, out2, events, runtime,
                 built, children, consumed, appended>>

\* events.starts(*tags)
CursorStarts ==
  /\ pc = "cursor"
  /\ \E tags \in TagSets :
       got' = [op |-> "starts", tags |-> tags, at |-> cursor, err |-> "", elem |-> <<>>]
  /\ UNCHANGED <<file, pc, loaded, infos, target, hashseed, out, reloaded, out2, events, cursor,
                 runtime,
                 built, children, consumed, appended>>

\* the tags the loops of _load_senses, _load_lexical_entries and
\* _load_synsets peek for
SenseTags(external) == IF external THEN {"Sense", "ExternalSense"} ELSE {"Sense"}
EntryTags(extension) ==
  IF extension THEN {"LexicalEntry", "ExternalLexicalEntry"} ELSE {"LexicalEntry"}
SynsetTags(extension) == IF extension THEN {"Synset", "ExternalSynset"} ELSE {"Synset"}

\* a call of a loop of the loader: [op, tags, err, pos], tags the tags its
\* peek looks for
LoopCall(op, tags, result) == [op |-> op, tags |-> tags, err |-> result.err, pos |-> result.pos]

\* the loops of the loader called with the cursor at p
LoaderLoops(ev, p, version) ==
  { LoopCall("load: while events.starts('Lexicon', 'LexiconExtension')",
             {"Lexicon", "LexiconExtension"}, _load_lexicons_loop(ev, p, version, <<>>, 0)),
    LoopCall("_load_lexicon: while events.starts('Requires')",
             {"Requires"}, _load_requires_loop(ev, p, <<>>)),
    LoopCall("_load_forms", {"Form"}, _load_forms(ev, p)),
    LoopCall("_load_tags", {"Tag"}, _load_tags(ev, p)),
    LoopCall("_load_sense_relations", {"SenseRelation"}, _load_sense_relations(ev, p, version)),
    LoopCall("_load_examples", {"Example"}, _load_examples(ev, p, version)),
    LoopCall("_load_counts", {"Count"}, _load_counts(ev, p, version)),
    LoopCall("_load_syntactic_behaviours", {"SyntacticBehaviour"},
             _load_syntactic_behaviours(ev, p, version)),
    LoopCall("_load_definitions", {"Definition"}, _load_definitions(ev, p, version)),
    LoopCall("_load_synset_relations", {"SynsetRelation"},
             _load_synset_relations(ev, p, version)) }
  \cup { LoopCall("_load_lexical_entries", EntryTags(extension),
                  _load_lexical_entries(ev, p, extension, version)) : extension \in BOOLEAN }
  \cup { LoopCall("_load_synsets", SynsetTags(extension),
                  _load_synsets(ev, p, extension, version)) : extension \in BOOLEAN }
  \cup { LoopCall("_load_senses", SenseTags(external),
                  _load_senses(ev, p, external, version)) : external \in BOOLEAN }

\* one of the loops of the loader, given the iterator as it is
CursorLoop ==
  /\ pc = "cursor"
  /\ \E call \in LoaderLoops(events, cursor, _read_header(file.lines).version) :
       /\ got' = [op |-> call.op, tags |-> call.tags, at |-> cursor, err |-> call.err,
                  elem |-> <<>>]
       /\ cursor' = call.pos
  /\ UNCHANGED <<file, pc, loaded, infos, target, hashseed, out, reloaded, out2, events, runtime,
                 built, children, consumed, appended>>

\* load, lines 479-490, with the iterator it has just made
CursorLoad ==
  /\ pc = "cursor"
  /\ cursor = 1
  /\ got = NoCall
  /\ got' = [op |-> "load", tags |-> {}, at |-> cursor, err |-> load(file).err, elem |-> <<>>]
  /\ cursor' = load(file).pos
  /\ UNCHANGED <<file, pc, loaded, infos, target, hashseed, out, reloaded, out2, events, runtime,
                 built, children, consumed, appended>>

CursorNext == CursorStart \/ CursorEnd \/ CursorStarts \/ CursorLoop \/ CursorLoad

CursorSpec == CursorInit /\ [][CursorNext]_vars

\* ---------------------------------------------------------------------
\* A call of load followed step by step over the tree iterparse builds.
\* The parser reads the file in chunks: it has built the elements of a whole
\* chunk, each attached to its parent at its start tag, before the loader
\* sees the first event of the chunk.  An element is named by the index of
\* its start event.

\* for each event, [event, tag, start, parent, depth] of its element
RECURSIVE ElemNodes(_, _, _, _), KidsNodes(_, _, _, _)
ElemNodes(elem, at, parent, depth) ==
  <<[event |-> "start", tag |-> elem.tag, start |-> at, parent |-> parent, depth |-> depth]>>
  \o KidsNodes(elem.kids, at + 1, at, depth + 1)
  \o <<[event |-> "end", tag |-> elem.tag, start |-> at, parent |-> parent, depth |-> depth]>>
KidsNodes(kids, at, parent, depth) ==
  IF kids = <<>> THEN <<>>
  ELSE Bind(ElemNodes(Head(kids), at, parent, depth), LAMBDA first :
       first \o KidsNodes(Tail(kids), at + Len(first), parent, depth))
Nodes(f) == ElemNodes(f.root, 1, 0, 0)

\* the tree after the parser has produced the events from + 1 .. to: each
\* element started is among the children of its parent
feed(tree, nodes, from, to) ==
  [elem \in DOMAIN tree |->
     tree[elem] \cup {k \in (from + 1)..to : nodes[k].event = "start" /\ nodes[k].parent = elem}]

\* a faulty variant of Element.clear: the children stay
clear_keeps_children(tree, elem) == tree

\* Element.clear(), of the children of the element
clear(tree, elem) == [tree EXCEPT ![elem] = {}]

\* the end tag the loop of _load_lexical_entries or _load_synsets has read
\* (lines 579, 588, 746, 757), and the end tag _load_lexicon has read (547)
IsEntryEnd(node) ==
  /\ node.event = "end"
  /\ node.depth = 2
  /\ node.tag \in {"LexicalEntry", "ExternalLexicalEntry", "Synset", "ExternalSynset"}
IsLexiconEnd(node) ==
  node.event = "end" /\ node.depth = 1 /\ node.tag \in {"Lexicon", "LexiconExtension"}

\* bound of the documents of this caller: the entries and synsets of a
\* resource
MaxEntries == 3

\* documents of one resource of up to MaxEntries entries and synsets, and
\* of two resources of one entry or synset at most
StreamResources ==
  { Resource(h, kids) :
      h \in { [tag |-> "Lexicon", attrs |-> LexAttrs, deps |-> <<>>],
              [tag |-> "LexiconExtension", attrs |-> LexAttrs, deps |-> <<Extends>>] },
      kids \in SeqsUpTo({EntryPlain, SynPlain}, MaxEntries) }
StreamFiles ==
  { Document(HeaderLines(v), _DC_URIS[v], rs) :
      v \in Versions,
      rs \in { <<r>> : r \in StreamResources }
              \cup { <<r, r>> : r \in {x \in StreamResources : Len(x.kids) <= 2} } }

\* a caller about to call load
StreamInit ==
  /\ file \in StreamFiles
  /\ runtime \in {r \in Runtimes : r.debug}
  /\ pc = "open"
  /\ loaded = NoLoad
  /\ infos = NoScan
  /\ target = None
  /\ hashseed = <<>>
  /\ out = NoDump
  /\ reloaded = NoLoad
  /\ out2 = NoDump
  /\ events = <<>>
  /\ cursor = 0
  /\ got = NoCall
  /\ built = 0
  /\ children = <<>>
  /\ consumed = {}
  /\ appended = <<>>

\* load reads the header and makes the iterator, whose __init__ takes the
\* first event, for which the parser reads the first chunk (lines 477-479,
\* 82-84); loaded is what the call is going to return or raise
StreamOpen ==
  /\ pc = "open"
  /\ loaded' = load(file)
  /\ events' = iterparse(file)
  /\ cursor' = 1
  /\ \E chunk \in 1..Len(iterparse(file)) :
       /\ built' = chunk
       /\ children' = feed([k \in 1..Len(iterparse(file)) |-> {}], Nodes(file), 0, chunk)
  /\ pc' = "next"
  /\ UNCHANGED <<file, infos, target, hashseed, out, reloaded, out2, got, runtime, consumed,
                 appended>>

\* XMLEventIterator.__next__ called by the loader, which goes on to the
\* event where load returns or raises: the event held is handed out and the
\* next is taken from iterparse, which has the parser read one more chunk
\* when it has no event left
StreamNext ==
  /\ pc = "next"
  /\ cursor < loaded.pos
  /\ cursor' = cursor + 1
  /\ \E chunk \in (cursor + 1)..Len(events) \cup {built} :
       /\ chunk = built <=> (cursor + 1 <= built \/ built = Len(events))
       /\ built' = chunk
       /\ children' = feed(children, Nodes(file), built, chunk)
  /\ consumed' = IF IsEntryEnd(Nodes(file)[cursor]) \/ IsLexiconEnd(Nodes(file)[cursor])
                 THEN consumed \cup {Nodes(file)[cursor].start} ELSE consumed
  /\ pc' = IF IsEntryEnd(Nodes(file)[cursor]) THEN "append"
           ELSE IF IsLexiconEnd(Nodes(file)[cursor]) THEN "append lexicon"
           ELSE "next"
  /\ UNCHANGED <<file, loaded, infos, target, hashseed, out, reloaded, out2, events, got,
                 runtime, appended>>

\* entries.append(entry); lex_root.clear() and synsets.append(synset);
\* lex_root.clear() (lines 591-592, 759-760)
StreamAppend ==
  /\ pc = "append"
  /\ appended' = Append(appended, Nodes(file)[cursor - 1].start)
  /\ children' = clear(children, Nodes(file)[cursor - 1].parent)
  /\ pc' = "next"
  /\ UNCHANGED <<file, loaded, infos, target, hashseed, out, reloaded, out2, events, cursor,
                 got, runtime, built, consumed>>

\* lexicons.append(_load_lexicon(events, version)); root.clear() (lines
\* 484-485)
StreamAppendLexicon ==
  /\ pc = "append lexicon"
  /\ appended' = Append(appended, Nodes(file)[cursor - 1].start)
  /\ children' = clear(children, Nodes(file)[cursor - 1].parent)
  /\ pc' = "next"
  /\ UNCHANGED <<file, loaded, infos, target, hashseed, out, reloaded, out2, events, cursor,
                 got, runtime, built, consumed>>

StreamNextStep == StreamOpen \/ StreamNext \/ StreamAppend \/ StreamAppendLexicon

StreamSpec == StreamInit /\ [][StreamNextStep]_vars

\* ---------------------------------------------------------------------
\* Properties of the header check, the round trip and the scan.

\* a header line as _read_header compares it
Normalized(line) == replaceQuotes(rstrip(line))

\* the value of an attribute of an element of a file, None when not written
AttrOf(elem, local) ==
  LET hits == SelectSeq(elem.attrs, LAMBDA a : a[1] = A(local))
  IN  IF hits = <<>> THEN None ELSE hits[1][2]

\* the children of an element with one of the tags, in document order
KidsTagged(elem, tags) == SelectSeq(elem.kids, LAMBDA k : k.tag \in tags)

\* the concatenation of a sequence of sequences
RECURSIVE Flatten(_)
Flatten(seqs) == IF seqs = <<>> THEN <<>> ELSE Head(seqs) \o Flatten(Tail(seqs))

\* C1: _read_header, and so load, returns the version v exactly when the first
\* line, stripped of trailing whitespace and with single quotes replaced by
\* double quotes, is the required XML declaration and the second line,
\* normalised the same way, is the document type of v; every other pair of
\* first two lines fails with LMFError.
C1_HeaderContract ==
  pc # "start" =>
    LET first  == Normalized(readline(file.lines, 1))
        second == Normalized(readline(file.lines, 2))
        vs     == {v \in Versions : first = _XMLDECL /\ second = _DOCTYPE(_SCHEMAS[v])}
        header == _read_header(file.lines)
    IN  IF vs # {}
        THEN header.err = "" /\ header.version \in vs /\ loaded.version = header.version
        ELSE header.err = "LMFError" /\ loaded.err = "LMFError"

\* C2: the lexicons load returned, written by dump in either version and
\* loaded again, are a graph equal to the first in every field.
C2_RoundTrip ==
  /\ pc = "dumped" => out.err = ""
  /\ pc = "reloaded" => reloaded.err = "" /\ reloaded.lexicons = loaded.lexicons

\* C3: dump is a fixed point after one round trip: what dump writes for the
\* lexicons loaded from a file dump wrote is that file again, so the number
\* and the order of the SyntacticBehaviour elements do not change either.
C3_DumpFixedPoint ==
  pc = "redumped" => out2.err = "" /\ out2.file = out.file

\* C4: for a file load accepts, scan_lexicons returns as many resources as
\* load returns lexicons, in the same order, and for each of them the counts
\* of LexicalEntry and ExternalLexicalEntry add up to the number of entries
\* of the lexicon and the counts of Synset and ExternalSynset to the number
\* of its synsets.
C4_ScanLoadConsistency ==
  (pc \notin {"start", "loaded"} /\ loaded.err = "") =>
    /\ infos.err = ""
    /\ Len(infos.infos) = Len(loaded.lexicons)
    /\ \A i \in 1..Len(loaded.lexicons) :
         LET info    == infos.infos[i]
             lexicon == loaded.lexicons[i]
         IN  /\ info.attrs[A("id")] = lexicon.id
             /\ CountOf(info, "LexicalEntry") + CountOf(info, "ExternalLexicalEntry")
                  = Len(lexicon.lexical_entries)
             /\ CountOf(info, "Synset") + CountOf(info, "ExternalSynset")
                  = Len(lexicon.synsets)

\* two lexicons of different ids, external and other entries and synsets,
\* loaded and scanned
C4_TwoLexiconsScanned ==
  /\ pc = "scanned"
  /\ loaded.err = ""
  /\ Len(loaded.lexicons) = 2
  /\ loaded.lexicons[1].id # loaded.lexicons[2].id
  /\ \E i, j \in 1..2 :
       /\ \E k \in 1..Len(loaded.lexicons[i].lexical_entries) :
            loaded.lexicons[i].lexical_entries[k].external
       /\ \E k \in 1..Len(loaded.lexicons[j].lexical_entries) :
            ~loaded.lexicons[j].lexical_entries[k].external
       /\ \E k \in 1..Len(loaded.lexicons[i].synsets) : loaded.lexicons[i].synsets[k].external
       /\ \E k \in 1..Len(loaded.lexicons[j].synsets) : ~loaded.lexicons[j].synsets[k].external

\* ---------------------------------------------------------------------
\* Properties of the validation of relation types, literals and counts.

\* a SenseRelation or SynsetRelation in the element whose relType is outside
\* the vocabulary of its kind
RECURSIVE HasBadRelation(_)
HasBadRelation(elem) ==
  \/ /\ elem.tag = "SenseRelation"
     /\ AttrOf(elem, "relType") \notin SENSE_RELATIONS \cup SENSE_SYNSET_RELATIONS
  \/ /\ elem.tag = "SynsetRelation"
     /\ AttrOf(elem, "relType") \notin SYNSET_RELATIONS
  \/ \E i \in 1..Len(elem.kids) : HasBadRelation(elem.kids[i])

\* C5: a relation type outside the vocabulary, on a SenseRelation or a
\* SynsetRelation anywhere in the document, makes load fail with LMFError
\* and return no lexicon.
C5_BadRelationFatal ==
  (pc = "loaded" /\ _read_header(file.lines).err = "" /\ HasBadRelation(file.root)) =>
    loaded.err = "LMFError" /\ loaded.lexicons = <<>>

\* the attribute of an element that _get_literal validates, with its choices
LiteralAttr(tag) ==
  IF tag = "Sense" THEN <<"adjposition", ADJPOSITIONS>>
  ELSE IF tag \in {"Lemma", "Synset"} THEN <<"partOfSpeech", PARTS_OF_SPEECH>>
  ELSE <<>>

\* the written value is outside the choices of the attribute
InvalidLiteral(tag, pair) ==
  /\ LiteralAttr(tag) # <<>>
  /\ pair[1] = A(LiteralAttr(tag)[1])
  /\ pair[2] \notin LiteralAttr(tag)[2]

\* the element with every adjposition and partOfSpeech outside the
\* vocabulary replaced by a value of the vocabulary
RECURSIVE ValidLiterals(_)
ValidLiterals(elem) ==
  [tag   |-> elem.tag,
   attrs |-> [i \in 1..Len(elem.attrs) |->
                IF InvalidLiteral(elem.tag, elem.attrs[i])
                THEN <<elem.attrs[i][1], CHOOSE c \in LiteralAttr(elem.tag)[2] : TRUE>>
                ELSE elem.attrs[i]],
   text  |-> elem.text,
   kids  |-> [i \in 1..Len(elem.kids) |-> ValidLiterals(elem.kids[i])]]

\* the number of adjposition and partOfSpeech values outside the vocabulary
RECURSIVE NumInvalidLiterals(_)
NumInvalidLiterals(elem) ==
  Len(SelectSeq(elem.attrs, LAMBDA a : InvalidLiteral(elem.tag, a)))
  + Len(Flatten([i \in 1..Len(elem.kids) |->
                   [j \in 1..NumInvalidLiterals(elem.kids[i]) |-> 1]]))

\* the adjposition of every Sense and the partOfSpeech of every Lemma and
\* Synset as written, "" when not written, in document order
RECURSIVE RawLiterals(_)
RawLiterals(elem) ==
  (IF LiteralAttr(elem.tag) = <<>> THEN <<>>
   ELSE IF AttrOf(elem, LiteralAttr(elem.tag)[1]) = None THEN <<"">>
   ELSE <<AttrOf(elem, LiteralAttr(elem.tag)[1])>>)
  \o Flatten([i \in 1..Len(elem.kids) |-> RawLiterals(elem.kids[i])])

\* the same values as the loaded lexicons store them
StoredLiterals(lexicons) ==
  Flatten([i \in 1..Len(lexicons) |->
    Flatten([j \in 1..Len(lexicons[i].lexical_entries) |->
      LET entry == lexicons[i].lexical_entries[j]
      IN  (IF entry.lemma = <<>> THEN <<>> ELSE <<entry.lemma[1].pos>>)
          \o Flatten([k \in 1..Len(entry.senses) |->
                        IF entry.senses[k].external THEN <<>>
                        ELSE <<entry.senses[k].adjposition>>])])
    \o Flatten([j \in 1..Len(lexicons[i].synsets) |->
                  IF lexicons[i].synsets[j].external THEN <<>>
                  ELSE <<lexicons[i].synsets[j].pos>>])])

\* the lexicons without the values of StoredLiterals
WithoutLiterals(lexicons) ==
  [i \in 1..Len(lexicons) |->
    [lexicons[i] EXCEPT
       !.lexical_entries =
         [j \in 1..Len(@) |->
            [@[j] EXCEPT
               !.lemma = IF @ = <<>> THEN <<>> ELSE <<[@[1] EXCEPT !.pos = ""]>>,
               !.senses = [k \in 1..Len(@) |-> [@[k] EXCEPT !.adjposition = ""]]]],
       !.synsets = [j \in 1..Len(@) |-> [@[j] EXCEPT !.pos = ""]]]]

\* C6: an adjposition or a partOfSpeech outside the vocabulary never aborts
\* the load: load ends as it does for the same document with values of the
\* vocabulary in their place, every element after the value is loaded as it
\* is there, the value is stored as written, and each such value adds one
\* diagnostic.
C6_LiteralsNeverAbort ==
  pc = "loaded" =>
    LET valid == load([file EXCEPT !.root = ValidLiterals(file.root)])
    IN  /\ loaded.err = valid.err
        /\ loaded.pos = valid.pos
        /\ WithoutLiterals(loaded.lexicons) = WithoutLiterals(valid.lexicons)
        /\ loaded.err = "" =>
             /\ StoredLiterals(loaded.lexicons) = RawLiterals(file.root)
             /\ loaded.w = valid.w + NumInvalidLiterals(file.root)

\* a document with an adjposition and two partOfSpeech values outside the
\* vocabulary, loaded with the values stored and three more diagnostics
C6_InvalidLiteralsLoaded ==
  /\ pc = "loaded"
  /\ loaded.err = ""
  /\ NumInvalidLiterals(file.root) >= 3
  /\ \E i \in 1..Len(loaded.lexicons) :
       /\ \E j \in 1..Len(loaded.lexicons[i].lexical_entries) :
            LET entry == loaded.lexicons[i].lexical_entries[j]
            IN  /\ entry.lemma # <<>>
                /\ entry.lemma[1].pos \notin PARTS_OF_SPEECH
                /\ \E k \in 1..Len(entry.senses) :
                     /\ entry.senses[k].adjposition \notin ADJPOSITIONS \cup {""}
                     /\ entry.senses[k].counts # <<>>
                     /\ k < Len(entry.senses)
       /\ \E j \in 1..Len(loaded.lexicons[i].synsets) :
            /\ loaded.lexicons[i].synsets[j].pos \notin PARTS_OF_SPEECH \cup {""}
            /\ loaded.lexicons[i].synsets[j].definitions # <<>>
  /\ loaded.w >= 3

\* the element with the text of every Count replaced by a decimal literal
RECURSIVE ValidCounts(_)
ValidCounts(elem) ==
  [tag   |-> elem.tag,
   attrs |-> elem.attrs,
   text  |-> IF elem.tag = "Count" /\ elem.text \notin DOMAIN IntOf THEN "7" ELSE elem.text,
   kids  |-> [i \in 1..Len(elem.kids) |-> ValidCounts(elem.kids[i])]]

\* the text of every Count, in document order
RECURSIVE CountTexts(_)
CountTexts(elem) ==
  (IF elem.tag = "Count" THEN <<elem.text>> ELSE <<>>)
  \o Flatten([i \in 1..Len(elem.kids) |-> CountTexts(elem.kids[i])])

\* the value of every Count of the loaded lexicons, in the same order
StoredCounts(lexicons) ==
  Flatten([i \in 1..Len(lexicons) |->
    Flatten([j \in 1..Len(lexicons[i].lexical_entries) |->
      Flatten([k \in 1..Len(lexicons[i].lexical_entries[j].senses) |->
        [c \in 1..Len(lexicons[i].lexical_entries[j].senses[k].counts) |->
           lexicons[i].lexical_entries[j].senses[k].counts[c].value]])])])

\* C7: the text of a Count, whatever it is and also when there is none,
\* never aborts the load: load ends as it does with decimal literals in the
\* place of the other texts; a text that is no integer is stored as -1 with
\* one diagnostic, an integer n as n with none.
C7_CountSentinel ==
  pc = "loaded" =>
    LET valid == load([file EXCEPT !.root = ValidCounts(file.root)])
        texts == CountTexts(file.root)
    IN  /\ loaded.err = valid.err
        /\ loaded.err = "" =>
             /\ StoredCounts(loaded.lexicons)
                  = [c \in 1..Len(texts) |->
                       IF texts[c] \in DOMAIN IntOf THEN IntOf[texts[c]] ELSE -1]
             /\ loaded.w
                  = valid.w + Len(SelectSeq(texts, LAMBDA t : t \notin DOMAIN IntOf))

\* ---------------------------------------------------------------------
\* Properties of the external elements and of the dependencies.

\* the metadata load reads from the attributes of an element of the file
MetaOf(elem) == _get_metadata(Attrib(elem.attrs, file.dcns), loaded.version).val

\* the relations of a loaded sense or synset are those of the element, in
\* document order
RelationsAgree(elem, tag, relations) ==
  relations = [i \in 1..Len(KidsTagged(elem, {tag})) |->
                 [target |-> AttrOf(KidsTagged(elem, {tag})[i], "target"),
                  type   |-> AttrOf(KidsTagged(elem, {tag})[i], "relType"),
                  meta   |-> MetaOf(KidsTagged(elem, {tag})[i])]]

\* the examples of a loaded sense or synset are those of the element
ExamplesAgree(elem, examples) ==
  examples = [i \in 1..Len(KidsTagged(elem, {"Example"})) |->
                [text     |-> KidsTagged(elem, {"Example"})[i].text,
                 language |-> AttrOf(KidsTagged(elem, {"Example"})[i], "language"),
                 meta     |-> MetaOf(KidsTagged(elem, {"Example"})[i])]]

\* a loaded sense against its Sense or ExternalSense element
SenseAgrees(elem, sense) ==
  /\ sense.id = AttrOf(elem, "id")
  /\ sense.external = (elem.tag = "ExternalSense")
  /\ sense.external => sense.synset = ""
  /\ ~sense.external => sense.synset = AttrOf(elem, "synset")
  /\ RelationsAgree(elem, "SenseRelation", sense.relations)
  /\ ExamplesAgree(elem, sense.examples)
  /\ [c \in 1..Len(sense.counts) |-> sense.counts[c].value]
       = [c \in 1..Len(KidsTagged(elem, {"Count"})) |->
            IF KidsTagged(elem, {"Count"})[c].text \in DOMAIN IntOf
            THEN IntOf[KidsTagged(elem, {"Count"})[c].text] ELSE -1]

\* a loaded entry against its LexicalEntry or ExternalLexicalEntry element
EntryAgrees(elem, entry) ==
  /\ entry.id = AttrOf(elem, "id")
  /\ entry.external = (elem.tag = "ExternalLexicalEntry")
  /\ entry.external => entry.lemma = <<>>
  /\ ~entry.external =>
       /\ entry.lemma # <<>>
       /\ entry.lemma[1].form = AttrOf(KidsTagged(elem, {"Lemma"})[1], "writtenForm")
  /\ [f \in 1..Len(entry.forms) |-> entry.forms[f].form]
       = [f \in 1..Len(KidsTagged(elem, {"Form"})) |->
            AttrOf(KidsTagged(elem, {"Form"})[f], "writtenForm")]
  /\ Len(entry.senses) = Len(KidsTagged(elem, {"Sense", "ExternalSense"}))
  /\ \A k \in 1..Len(entry.senses) :
       SenseAgrees(KidsTagged(elem, {"Sense", "ExternalSense"})[k], entry.senses[k])

\* a loaded synset against its Synset or ExternalSynset element
SynsetAgrees(elem, synset) ==
  /\ synset.id = AttrOf(elem, "id")
  /\ synset.external = (elem.tag = "ExternalSynset")
  /\ synset.external => synset.ili = "" /\ synset.pos = ""
  /\ ~synset.external => synset.ili = AttrOf(elem, "ili")
  /\ [d \in 1..Len(synset.definitions) |-> synset.definitions[d].text]
       = [d \in 1..Len(KidsTagged(elem, {"Definition"})) |->
            KidsTagged(elem, {"Definition"})[d].text]
  /\ RelationsAgree(elem, "SynsetRelation", synset.relations)
  /\ ExamplesAgree(elem, synset.examples)

\* C8: an ExternalLexicalEntry, ExternalSense or ExternalSynset is loaded
\* with its external flag set, and no other element is; an external entry
\* has no lemma, an external sense an empty synset, an external synset an
\* empty ili and an empty part of speech; the children of an external
\* element are loaded in document order exactly as those of the element
\* that is not external.
C8_ExternalStubs ==
  (pc = "loaded" /\ loaded.err = "") =>
    /\ Len(loaded.lexicons) = Len(file.root.kids)
    /\ \A i \in 1..Len(loaded.lexicons) :
         LET entryElems  == KidsTagged(file.root.kids[i],
                                       {"LexicalEntry", "ExternalLexicalEntry"})
             synsetElems == KidsTagged(file.root.kids[i], {"Synset", "ExternalSynset"})
         IN  /\ Len(loaded.lexicons[i].lexical_entries) = Len(entryElems)
             /\ \A j \in 1..Len(entryElems) :
                  EntryAgrees(entryElems[j], loaded.lexicons[i].lexical_entries[j])
             /\ Len(loaded.lexicons[i].synsets) = Len(synsetElems)
             /\ \A j \in 1..Len(synsetElems) :
                  SynsetAgrees(synsetElems[j], loaded.lexicons[i].synsets[j])

\* an extension loaded with an external entry whose external sense has
\* relations, examples and counts, a sense that is not external after it,
\* and an external synset with definitions, relations and examples
C8_ExternalsLoaded ==
  /\ pc = "loaded"
  /\ loaded.err = ""
  /\ \E i \in 1..Len(loaded.lexicons) :
       /\ \E j \in 1..Len(loaded.lexicons[i].lexical_entries) :
            LET entry == loaded.lexicons[i].lexical_entries[j]
            IN  /\ entry.external
                /\ entry.forms # <<>>
                /\ \E k \in 1..Len(entry.senses) :
                     /\ entry.senses[k].external
                     /\ Len(entry.senses[k].relations) = 2
                     /\ Len(entry.senses[k].examples) = 2
                     /\ Len(entry.senses[k].counts) = 2
                /\ \E k \in 1..Len(entry.senses) : ~entry.senses[k].external
       /\ \E j \in 1..Len(loaded.lexicons[i].synsets) :
            LET synset == loaded.lexicons[i].synsets[j]
            IN  /\ synset.external
                /\ synset.definitions # <<>>
                /\ Len(synset.relations) = 2
                /\ synset.examples # <<>>

\* the dependency record of an Extends or Requires element
DependencyOf(elem) ==
  [id |-> AttrOf(elem, "id"), version |-> AttrOf(elem, "version"), url |-> AttrOf(elem, "url")]

\* the first child of the element is an Extends
FirstIsExtends(elem) == elem.kids # <<>> /\ elem.kids[1].tag = "Extends"

\* C9: in a document of version 1.1 a LexiconExtension whose first child is
\* not Extends makes load fail with LMFError; when Extends is there it is
\* consumed first and the Requires elements after it each give one
\* dependency record, in document order.
C9_ExtendsMandatory ==
  (pc = "loaded" /\ _read_header(file.lines).err = "" /\ loaded.version = "1.1") =>
    /\ (\E i \in 1..Len(file.root.kids) :
          /\ file.root.kids[i].tag = "LexiconExtension"
          /\ ~FirstIsExtends(file.root.kids[i]))
       => loaded.err = "LMFError"
    /\ loaded.err = "" =>
         \A i \in 1..Len(loaded.lexicons) :
           /\ file.root.kids[i].tag = "LexiconExtension" =>
                loaded.lexicons[i].extends = <<DependencyOf(file.root.kids[i].kids[1])>>
           /\ loaded.lexicons[i].requires
                = [r \in 1..Len(KidsTagged(file.root.kids[i], {"Requires"})) |->
                     DependencyOf(KidsTagged(file.root.kids[i], {"Requires"})[r])]

\* C10: a loaded lexicon has a base it extends only if the document is of
\* version 1.1 and its element is a LexiconExtension; a lexicon of a
\* document of version 1.0 extends nothing and requires nothing; a
\* LexiconExtension in a document of version 1.0 makes load fail.
C10_ExtendsOnlyInExtensions ==
  (pc = "loaded" /\ _read_header(file.lines).err = "") =>
    /\ loaded.err = "" =>
         \A i \in 1..Len(loaded.lexicons) :
           /\ loaded.lexicons[i].extends # <<>> =>
                /\ loaded.version = "1.1"
                /\ file.root.kids[i].tag = "LexiconExtension"
           /\ loaded.version = "1.0" =>
                /\ loaded.lexicons[i].extends = <<>>
                /\ loaded.lexicons[i].requires = <<>>
    /\ (/\ loaded.version = "1.0"
        /\ \E i \in 1..Len(file.root.kids) : file.root.kids[i].tag = "LexiconExtension")
       => loaded.err # ""

\* a document of version 1.1 loaded with a lexicon that extends nothing and
\* requires a lexicon, and an extension with its base and two requirements
C10_DependenciesLoaded ==
  /\ pc = "loaded"
  /\ loaded.err = ""
  /\ loaded.version = "1.1"
  /\ \E i \in 1..Len(loaded.lexicons) :
       /\ file.root.kids[i].tag = "LexiconExtension"
       /\ loaded.lexicons[i].extends # <<>>
       /\ Len(loaded.lexicons[i].requires) = 2
       /\ loaded.lexicons[i].lexical_entries # <<>>

\* a document of version 1.0 with a LexiconExtension, which load rejected
C10_ExtensionRejected ==
  /\ pc = "loaded"
  /\ loaded.version = "1.0"
  /\ loaded.err = "LMFError"
  /\ \E i \in 1..Len(file.root.kids) :
       /\ file.root.kids[i].tag = "LexiconExtension"
       /\ KidsTagged(file.root.kids[i], {"Extends"}) # <<>>

\* ---------------------------------------------------------------------
\* Properties of the SyntacticBehaviour elements dump writes.

\* the sense ids of a loaded entry
SenseIds(entry) == {entry.senses[k].id : k \in 1..Len(entry.senses)}

\* how often a value occurs in a sequence
Occurrences(seq, x) == Len(SelectSeq(seq, LAMBDA y : y = x))

\* the recorded frames that list a sense of the entry, in recorded order
FramesOf(entry, frames) ==
  SelectSeq(frames, LAMBDA sb : Range(sb.senses) \cap SenseIds(entry) # {})

\* no recorded frame lists two senses of the entry, or one of them twice
OneSensePerFrame(entry, frames) ==
  \A f \in 1..Len(frames) : Len(Filter(frames[f].senses, SenseIds(entry))) <= 1

\* the <<subcategorizationFrame, senses>> of the SyntacticBehaviour children
\* of a written element
WrittenFrames(elem) ==
  [k \in 1..Len(KidsTagged(elem, {"SyntacticBehaviour"})) |->
     <<AttrOf(KidsTagged(elem, {"SyntacticBehaviour"})[k], "subcategorizationFrame"),
       AttrOf(KidsTagged(elem, {"SyntacticBehaviour"})[k], "senses")>>]

\* the same pairs for the frames of the entry: the sense ids of the entry
\* the frame lists, sorted
ExpectedFrames(entry, frames) ==
  [k \in 1..Len(FramesOf(entry, frames)) |->
     <<FramesOf(entry, frames)[k].frame,
       join(sorted(SenseIds(entry) \cap Range(FramesOf(entry, frames)[k].senses)))>>]

\* the SyntacticBehaviour children of a written element are its last ones
FramesTrail(elem) ==
  \A a, b \in 1..Len(elem.kids) :
    (elem.kids[a].tag = "SyntacticBehaviour" /\ a < b) =>
      elem.kids[b].tag = "SyntacticBehaviour"

\* C11: in a dump of version 1.0, an entry of which no recorded frame lists
\* more than one sense (so each of its senses is listed by frames of its
\* own) is written with, after all its Sense elements, one
\* SyntacticBehaviour for each recorded frame that lists one of its senses,
\* whose senses attribute is the sorted sense ids of the entry the frame
\* lists; sense ids of other entries are not written, and a frame listing
\* no sense of the entry is not written under it.
C11_FramesRegrouped ==
  (pc = "dumped" /\ target = "1.0" /\ out.err = "") =>
    \A i \in 1..Len(loaded.lexicons) :
      \A j \in 1..Len(loaded.lexicons[i].lexical_entries) :
        LET entry  == loaded.lexicons[i].lexical_entries[j]
            frames == loaded.lexicons[i].syntactic_behaviours
            elem   == out.file.root.kids[i].kids[j]
        IN  OneSensePerFrame(entry, frames) =>
              /\ FramesTrail(elem)
              /\ Len(WrittenFrames(elem)) = Len(ExpectedFrames(entry, frames))
              /\ \A k \in 1..Len(WrittenFrames(elem)) :
                   Occurrences(WrittenFrames(elem), WrittenFrames(elem)[k])
                     = Occurrences(ExpectedFrames(entry, frames), WrittenFrames(elem)[k])

\* a dump of version 1.0 of an entry with two senses, each listed by a frame
\* of its own, one of the frames listing a sense of another entry too, in a
\* lexicon with a frame that lists no sense
C11_TwoFramesWritten ==
  /\ pc = "dumped"
  /\ target = "1.0"
  /\ out.err = ""
  /\ \E i \in 1..Len(loaded.lexicons) :
       \E j \in 1..Len(loaded.lexicons[i].lexical_entries) :
         LET entry  == loaded.lexicons[i].lexical_entries[j]
             frames == loaded.lexicons[i].syntactic_behaviours
         IN  /\ OneSensePerFrame(entry, frames)
             /\ Len(entry.senses) = 2
             /\ Len(FramesOf(entry, frames)) = 2
             /\ \A k \in 1..2 :
                  \E f \in 1..Len(frames) : entry.senses[k].id \in Range(frames[f].senses)
             /\ \E f \in 1..Len(frames) :
                  /\ Range(frames[f].senses) \cap SenseIds(entry) # {}
                  /\ Range(frames[f].senses) \ SenseIds(entry) # {}
             /\ \E f \in 1..Len(frames) : frames[f].senses = <<>>
             /\ Len(WrittenFrames(out.file.root.kids[i].kids[j])) = 2

\* C12: in a dump of version 1.0 a recorded frame is written at most once
\* under an entry, also when it lists two or more senses of the entry.
C12_FramesDeduplicated ==
  (pc = "dumped" /\ target = "1.0" /\ out.err = "") =>
    \A i \in 1..Len(loaded.lexicons) :
      \A j \in 1..Len(loaded.lexicons[i].lexical_entries) :
        LET entry  == loaded.lexicons[i].lexical_entries[j]
            frames == loaded.lexicons[i].syntactic_behaviours
            elem   == out.file.root.kids[i].kids[j]
        IN  /\ Len(WrittenFrames(elem)) <= Len(FramesOf(entry, frames))
            /\ \A k \in 1..Len(WrittenFrames(elem)) :
                 Occurrences(WrittenFrames(elem), WrittenFrames(elem)[k])
                   <= Occurrences(ExpectedFrames(entry, frames), WrittenFrames(elem)[k])

\* an element of the tag in the tree of the element
RECURSIVE HasTag(_, _)
HasTag(elem, tag) ==
  elem.tag = tag \/ \E k \in 1..Len(elem.kids) : HasTag(elem.kids[k], tag)

\* C13: a dump of version 1.1 of lexicons with recorded frames does not end
\* as a plain success with no SyntacticBehaviour written: it raises, or it
\* writes one (dump issues no diagnostic, so there is no third way).
C13_FramesNotDropped ==
  (/\ pc = "dumped"
   /\ target = "1.1"
   /\ \E i \in 1..Len(loaded.lexicons) : loaded.lexicons[i].syntactic_behaviours # <<>>)
  => (out.err # "" \/ HasTag(out.file.root, "SyntacticBehaviour"))

\* ---------------------------------------------------------------------
\* The order of what dump writes.

\* the <<tag, id>> of the children of a written element, in written order
WrittenChildren(elem) ==
  [k \in 1..Len(elem.kids) |-> <<elem.kids[k].tag, AttrOf(elem.kids[k], "id")>>]

\* C14: the file dump writes for a list of lexicons and a version is the XML
\* declaration line, the document type line of the version, the root
\* element with the metadata namespace of the version, and in it one Lexicon
\* for each lexicon, in list order, holding its LexicalEntry elements in
\* list order followed by its Synset elements in list order and nothing
\* else.
C14_DumpOrder ==
  (pc = "dumped" /\ out.err = "") =>
    /\ out.file.lines = <<_XMLDECL \o <<"\n">>, _DOCTYPE(_SCHEMAS[target]) \o <<"\n">>>>
    /\ out.file.dcns = _DC_URIS[target]
    /\ out.file.root.tag = "LexicalResource"
    /\ WrittenChildren(out.file.root)
         = [i \in 1..Len(loaded.lexicons) |-> <<"Lexicon", loaded.lexicons[i].id>>]
    /\ \A i \in 1..Len(loaded.lexicons) :
         WrittenChildren(out.file.root.kids[i])
           = [j \in 1..Len(loaded.lexicons[i].lexical_entries) |->
                <<"LexicalEntry", loaded.lexicons[i].lexical_entries[j].id>>]
             \o [j \in 1..Len(loaded.lexicons[i].synsets) |->
                   <<"Synset", loaded.lexicons[i].synsets[j].id>>]

\* two lexicons written, each with entries and synsets, one with two entries
C14_TwoLexiconsWritten ==
  /\ pc = "dumped"
  /\ out.err = ""
  /\ Len(loaded.lexicons) = 2
  /\ loaded.lexicons[1].id # loaded.lexicons[2].id
  /\ \A i \in 1..2 :
       /\ loaded.lexicons[i].lexical_entries # <<>>
       /\ loaded.lexicons[i].synsets # <<>>
  /\ \E i \in 1..2 : Len(loaded.lexicons[i].lexical_entries) = 2
  /\ Len(out.file.root.kids) = 2

\* ---------------------------------------------------------------------
\* Properties of the metadata, the scanner and the grammar.

\* the element of a file carries one of the 17 metadata attributes of the
\* version of the file with a value that is not empty: a dc: attribute when
\* the prefix is bound to the namespace of the version, status, note or
\* confidenceScore
HasMetadataValue(elem) ==
  \E a \in 1..Len(elem.attrs) :
    /\ elem.attrs[a][2] # ""
    /\ \/ /\ elem.attrs[a][1][1] = "dc"
          /\ file.dcns = _DC_URIS[loaded.version]
          /\ elem.attrs[a][1][2] \in Range(_DC_ATTRS)
       \/ elem.attrs[a][1] \in {A("status"), A("note"), A("confidenceScore")}

\* C15: an entity is loaded with a Metadata record exactly when its element
\* carries a metadata attribute of the version that is not empty; attributes
\* that are there but empty, and dc: attributes of the namespace of the
\* other version, give no Metadata.
C15_MetadataPresence ==
  (pc = "loaded" /\ loaded.err = "") =>
    \A i \in 1..Len(loaded.lexicons) :
      LET entryElems  == KidsTagged(file.root.kids[i], {"LexicalEntry"})
          entries     == SelectSeq(loaded.lexicons[i].lexical_entries,
                                   LAMBDA entry : ~entry.external)
          synsetElems == KidsTagged(file.root.kids[i], {"Synset"})
          synsets     == SelectSeq(loaded.lexicons[i].synsets,
                                   LAMBDA synset : ~synset.external)
      IN  /\ (loaded.lexicons[i].meta # <<>>) = HasMetadataValue(file.root.kids[i])
          /\ \A j \in 1..Len(entries) :
               (entries[j].meta # <<>>) = HasMetadataValue(entryElems[j])
          /\ \A j \in 1..Len(synsets) :
               (synsets[j].meta # <<>>) = HasMetadataValue(synsetElems[j])

\* the Lexicon and LexiconExtension children of the root of the file
Resources == KidsTagged(file.root, {"Lexicon", "LexiconExtension"})

\* C16: the counts scan_lexicons returns for a resource are those of the
\* direct children of the resource element other than Extends: the count of
\* a tag is the number of direct children with the tag, so elements deeper
\* in the tree and elements after the end tag of the resource add nothing.
C16_ImmediateChildCounts ==
  (pc = "scanned" /\ infos.err = "") =>
    /\ Len(infos.infos) = Len(Resources)
    /\ \A i \in 1..Len(Resources) :
         \A tag \in (DOMAIN infos.infos[i].counts
                     \cup {Resources[i].kids[k].tag : k \in 1..Len(Resources[i].kids)})
                    \ {"Extends"} :
           CountOf(infos.infos[i], tag) = Len(KidsTagged(Resources[i], {tag}))

\* an ExternalLexicalEntry or ExternalSynset directly in a Lexicon, or an
\* ExternalSense directly in a LexicalEntry
MisplacedStub ==
  \E i \in 1..Len(Resources) :
    \/ /\ Resources[i].tag = "Lexicon"
       /\ KidsTagged(Resources[i], {"ExternalLexicalEntry", "ExternalSynset"}) # <<>>
    \/ \E k \in 1..Len(Resources[i].kids) :
         /\ Resources[i].kids[k].tag = "LexicalEntry"
         /\ KidsTagged(Resources[i].kids[k], {"ExternalSense"}) # <<>>

\* C17: an ExternalLexicalEntry or ExternalSynset in a resource whose
\* element is Lexicon, and an ExternalSense in a LexicalEntry, are never
\* loaded: each makes load fail with LMFError.
C17_StubsOnlyInContext ==
  (pc = "loaded" /\ _read_header(file.lines).err = "" /\ MisplacedStub) =>
    loaded.err = "LMFError" /\ loaded.lexicons = <<>>

\* the children of a resource after its Extends and Requires are entries
\* followed by synsets and nothing else
RECURSIVE DropWhile(_, _)
DropWhile(seq, tags) ==
  IF seq # <<>> /\ Head(seq).tag \in tags THEN DropWhile(Tail(seq), tags) ELSE seq
EntriesThenSynsets(kids) ==
  DropWhile(DropWhile(DropWhile(kids, {"Extends", "Requires"}),
                      {"LexicalEntry", "ExternalLexicalEntry"}),
            {"Synset", "ExternalSynset"}) = <<>>

\* a child of the root that is no resource, a resource whose children are
\* not entries followed by synsets, or a LexicalEntry whose first child is
\* no Lemma
Ungrammatical ==
  \/ Len(Resources) # Len(file.root.kids)
  \/ \E i \in 1..Len(Resources) :
       \/ ~EntriesThenSynsets(Resources[i].kids)
       \/ \E k \in 1..Len(Resources[i].kids) :
            /\ Resources[i].kids[k].tag = "LexicalEntry"
            /\ \/ Resources[i].kids[k].kids = <<>>
               \/ Resources[i].kids[k].kids[1].tag # "Lemma"

\* C18: load accepts only resources in which, after the optional Extends
\* and Requires, the entries come before the synsets and the end tag of the
\* resource follows; an entry after a synset, a LexicalEntry without a
\* Lemma as its first child, and any element the grammar does not expect
\* where it stands make load fail with LMFError.
C18_GrammarOrder ==
  (pc = "loaded" /\ _read_header(file.lines).err = "") =>
    /\ loaded.err = "" => ~Ungrammatical
    /\ Ungrammatical => loaded.err = "LMFError"

\* ---------------------------------------------------------------------
\* Properties of the cursor.

\* C19: start(tags) returns the element and moves the cursor by one event
\* when the next event is a start of one of the tags, and raises LMFError in
\* every other state, the exhausted one too; end(tags) does the same for
\* end events.
C19_ConsumeContract ==
  (pc = "cursor" /\ got.op \in {"start", "end"}) =>
    IF /\ got.at <= Len(events)
       /\ events[got.at].event = got.op
       /\ events[got.at].elem.tag \in got.tags
    THEN got.err = "" /\ got.elem = events[got.at].elem /\ cursor = got.at + 1
    ELSE got.err = "LMFError"

\* ---------------------------------------------------------------------
\* Properties of the boolean literals.

\* the lexicalized attribute of a Sense or Synset is written and is neither
\* true nor false in any case
InvalidBool(elem) ==
  /\ elem.tag \in {"Sense", "Synset"}
  /\ AttrOf(elem, "lexicalized") # None
  /\ lower(AttrOf(elem, "lexicalized")) \notin {"true", "false"}

\* the element with every such attribute replaced by true
RECURSIVE ValidBools(_)
ValidBools(elem) ==
  [tag   |-> elem.tag,
   attrs |-> [a \in 1..Len(elem.attrs) |->
                IF InvalidBool(elem) /\ elem.attrs[a][1] = A("lexicalized")
                THEN <<A("lexicalized"), "true">> ELSE elem.attrs[a]],
   text  |-> elem.text,
   kids  |-> [k \in 1..Len(elem.kids) |-> ValidBools(elem.kids[k])]]

\* the number of such attributes in the element
NumInvalidBools(elem) == Len(SelectSeq(StartElems(elem), InvalidBool))

\* str(b) of a bool
StrOfBool(b) == IF b THEN "True" ELSE "False"

\* the Sense elements of the entries and the Synset elements of a resource,
\* and the senses and synsets loaded from them
SenseElems(resource) ==
  Flatten([k \in 1..Len(KidsTagged(resource, {"LexicalEntry", "ExternalLexicalEntry"})) |->
             KidsTagged(KidsTagged(resource, {"LexicalEntry", "ExternalLexicalEntry"})[k],
                        {"Sense"})])
LoadedSenses(lexicon) ==
  Flatten([j \in 1..Len(lexicon.lexical_entries) |->
             SelectSeq(lexicon.lexical_entries[j].senses, LAMBDA sense : ~sense.external)])
LoadedSynsets(lexicon) == SelectSeq(lexicon.synsets, LAMBDA synset : ~synset.external)

\* C20: a lexicalized attribute of a Sense or Synset that is no boolean
\* literal does not stop the load (it ends as it does with true in the place
\* of the value), adds one diagnostic, and the lexicalized field of the
\* entity holds the value as written.
C20_BoolLiteralKept ==
  pc = "loaded" =>
    LET valid == load([file EXCEPT !.root = ValidBools(file.root)])
    IN  /\ loaded.err = valid.err
        /\ loaded.err = "" =>
             /\ loaded.w = valid.w + NumInvalidBools(file.root)
             /\ \A i \in 1..Len(loaded.lexicons) :
                  /\ \A k \in 1..Len(SenseElems(file.root.kids[i])) :
                       InvalidBool(SenseElems(file.root.kids[i])[k]) =>
                         StrOfBool(LoadedSenses(loaded.lexicons[i])[k].lexicalized)
                           = AttrOf(SenseElems(file.root.kids[i])[k], "lexicalized")
                  /\ \A k \in 1..Len(KidsTagged(file.root.kids[i], {"Synset"})) :
                       InvalidBool(KidsTagged(file.root.kids[i], {"Synset"})[k]) =>
                         StrOfBool(LoadedSynsets(loaded.lexicons[i])[k].lexicalized)
                           = AttrOf(KidsTagged(file.root.kids[i], {"Synset"})[k], "lexicalized")

\* ---------------------------------------------------------------------
\* Properties of the confidence score.

\* the confidenceScore written on an element is no number, or a number
\* outside [0, 1]
BadScore(elem) ==
  /\ AttrOf(elem, "confidenceScore") # None
  /\ \/ AttrOf(elem, "confidenceScore") \notin DOMAIN FloatOf
     \/ FloatOf[AttrOf(elem, "confidenceScore")] \notin FloatInRange

\* the element with every such score replaced by 0.5
RECURSIVE ValidScores(_)
ValidScores(elem) ==
  [tag   |-> elem.tag,
   attrs |-> [a \in 1..Len(elem.attrs) |->
                IF BadScore(elem) /\ elem.attrs[a][1] = A("confidenceScore")
                THEN <<A("confidenceScore"), "0.5">> ELSE elem.attrs[a]],
   text  |-> elem.text,
   kids  |-> [k \in 1..Len(elem.kids) |-> ValidScores(elem.kids[k])]]

\* the number of such scores in the element
NumBadScores(elem) == Len(SelectSeq(StartElems(elem), BadScore))

\* the confidence slot the score of an element is to be loaded as: the
\* number when the text is one, the text otherwise
ConfidenceOf(elem) ==
  IF AttrOf(elem, "confidenceScore") \in DOMAIN FloatOf
  THEN FloatOf[AttrOf(elem, "confidenceScore")]
  ELSE AttrOf(elem, "confidenceScore")

\* the Metadata of a loaded entity holds the score of its element
ScoreKept(elem, meta) ==
  AttrOf(elem, "confidenceScore") # None =>
    meta # <<>> /\ meta[1][Len(MetaFields)] = ConfidenceOf(elem)

\* C21: a confidenceScore that is no number or lies outside [0, 1] does not
\* stop the load (it ends as it does with 0.5 in the place of the score) and
\* adds exactly one diagnostic, a score within [0, 1] adds none; the entity
\* gets a Metadata whose confidence slot is the number, or the text as
\* written when it is no number.
C21_ConfidenceScore ==
  pc = "loaded" =>
    LET valid == load([file EXCEPT !.root = ValidScores(file.root)])
    IN  /\ loaded.err = valid.err
        /\ loaded.err = "" =>
             /\ loaded.w = valid.w + NumBadScores(file.root)
             /\ \A i \in 1..Len(loaded.lexicons) :
                  /\ ScoreKept(file.root.kids[i], loaded.lexicons[i].meta)
                  /\ \A k \in 1..Len(KidsTagged(file.root.kids[i], {"Synset"})) :
                       ScoreKept(KidsTagged(file.root.kids[i], {"Synset"})[k],
                                 LoadedSynsets(loaded.lexicons[i])[k].meta)

\* ---------------------------------------------------------------------
\* Properties of the metadata across dump and load.

\* the Metadata of the entities of a sense, entry, synset and lexicon, in
\* document order
SenseMetas(sense) ==
  <<sense.meta>>
  \o [r \in 1..Len(sense.relations) |-> sense.relations[r].meta]
  \o [x \in 1..Len(sense.examples) |-> sense.examples[x].meta]
  \o [c \in 1..Len(sense.counts) |-> sense.counts[c].meta]
EntryMetas(entry) ==
  <<entry.meta>> \o Flatten([k \in 1..Len(entry.senses) |-> SenseMetas(entry.senses[k])])
SynsetMetas(synset) ==
  <<synset.meta>>
  \o [d \in 1..Len(synset.definitions) |-> synset.definitions[d].meta]
  \o [d \in 1..Len(synset.ili_definition) |-> synset.ili_definition[d].meta]
  \o [r \in 1..Len(synset.relations) |-> synset.relations[r].meta]
  \o [x \in 1..Len(synset.examples) |-> synset.examples[x].meta]
LexiconMetas(lexicon) ==
  <<lexicon.meta>>
  \o Flatten([j \in 1..Len(lexicon.lexical_entries) |-> EntryMetas(lexicon.lexical_entries[j])])
  \o Flatten([k \in 1..Len(lexicon.synsets) |-> SynsetMetas(lexicon.synsets[k])])
MetaTrail(lexicons) == Flatten([i \in 1..Len(lexicons) |-> LexiconMetas(lexicons[i])])

\* C22: when the file dump wrote for loaded lexicons is loaded, every
\* Lexicon, LexicalEntry, Sense, SenseRelation, Example, Count, Synset,
\* Definition, ILIDefinition and SynsetRelation has the Metadata it had
\* before the dump, slot by slot.
C22_MetadataRoundTrip ==
  (pc = "reloaded" /\ reloaded.err = "") =>
    MetaTrail(reloaded.lexicons) = MetaTrail(loaded.lexicons)

\* ---------------------------------------------------------------------
\* Properties of the loader's progress over the events.

\* C23: a peek leaves the cursor where it is; a loop of the loader entered
\* where its peek succeeds consumes at least one event, and entered where it
\* fails is left at once with the cursor in place; the cursor never passes
\* the end of the stream, so every loop and load end; and when load returns,
\* the cursor is past the last event of the stream.
C23_LoaderProgress ==
  pc = "cursor" =>
    /\ cursor \in 1..(Len(events) + 1)
    /\ got.op = "starts" => cursor = got.at
    /\ got.op \notin {"unset", "starts", "start", "end", "load"} =>
         IF starts(events, got.at, got.tags)
         THEN cursor > got.at
         ELSE got.err = "" /\ cursor = got.at
    /\ (got.op = "load" /\ got.err = "") => cursor = Len(events) + 1

\* load has returned the lexicons of a document of two resources and more
\* than forty events
C23_LoadedToTheEnd ==
  /\ pc = "cursor"
  /\ got.op = "load"
  /\ got.err = ""
  /\ Len(file.root.kids) = 2
  /\ Len(events) > 40
  /\ cursor = Len(events) + 1

\* ---------------------------------------------------------------------
\* Properties of dump over the lexicons load returns.

\* C24: dump, of either version, of the lexicons load has returned raises
\* nothing and writes the two header lines and the root element with one
\* element for each lexicon.
C24_DumpAcceptsLoaded ==
  pc = "dumped" =>
    /\ out.err = ""
    /\ Len(out.file.lines) = 2
    /\ out.file.root.tag = "LexicalResource"
    /\ Len(out.file.root.kids) = Len(loaded.lexicons)

\* ---------------------------------------------------------------------
\* Properties of the clearing of consumed elements.

\* the attributes of a Lexicon read from the attrib of a start tag
HeadFields(attrib) ==
  [id |-> Get(attrib, A("id")), label |-> Get(attrib, A("label")),
   language |-> Get(attrib, A("language")), email |-> Get(attrib, A("email")),
   license |-> Get(attrib, A("license")), version |-> Get(attrib, A("version")),
   url |-> Get(attrib, A("url")), citation |-> Get(attrib, A("citation"))]
LexiconFields(lexicon) ==
  [id |-> lexicon.id, label |-> lexicon.label, language |-> lexicon.language,
   email |-> lexicon.email, license |-> lexicon.license, version |-> lexicon.version,
   url |-> lexicon.url, citation |-> lexicon.citation]

\* _load_lexicon at the start tag of a resource, at p: when the head, the
\* entries and the synsets of the resource have been read and the start tag
\* carries the required attributes, the Lexicon is built, with the values
\* and the metadata of the start tag, whatever the number of entries and
\* synsets after which the element was cleared
BuiltFromStartTag(ev, p, version) ==
  Bind(_load_lexicon_head(ev, p, version), LAMBDA head :
  head.err = "" =>
  Bind(_load_lexical_entries(ev, head.pos, head.val.extension, version), LAMBDA entries :
  entries.err = "" =>
  Bind(_load_synsets(ev, entries.pos, head.val.extension, version), LAMBDA synsets :
  (/\ synsets.err = ""
   /\ ~Missing(ev[p].elem.attrib, {"id", "label", "language", "email", "license", "version"})
   /\ end(ev, synsets.pos, {ev[p].elem.tag}).err = "") =>
  Bind(_load_lexicon(ev, p, version), LAMBDA lex :
    /\ lex.err = ""
    /\ LexiconFields(lex.val) = HeadFields(ev[p].elem.attrib)
    /\ lex.val.meta = _get_metadata(ev[p].elem.attrib, version).val
    /\ lex.val.lexical_entries = entries.val.entries
    /\ lex.val.synsets = synsets.val))))

\* C25: the Lexicon load builds for a resource has the id, label, language,
\* email, license, version, url, citation and metadata of the start tag of
\* the resource and the entries and synsets read from it, though the
\* resource element was cleared after each of them.
C25_ClearKeepsResult ==
  (pc = "loaded" /\ loaded.version # None) =>
    \A p \in 1..Len(iterparse(file)) :
      starts(iterparse(file), p, {"Lexicon", "LexiconExtension"}) =>
        BuiltFromStartTag(iterparse(file), p, loaded.version)

\* ---------------------------------------------------------------------
\* Properties of the order of the attributes dump writes.

\* the own attributes of the elements dump writes, in their fixed order
OwnAttrs(tag) ==
  CASE tag = "Lexicon" ->
         <<"id", "label", "language", "email", "license", "version", "url", "citation">>
    [] tag = "LexicalEntry" -> <<"id">>
    [] tag = "Sense" -> <<"id", "synset", "lexicalized", "adjposition">>
    [] tag = "Synset" -> <<"id", "ili", "partOfSpeech", "lexicalized">>
    [] tag \in {"SenseRelation", "SynsetRelation"} -> <<"target", "relType">>
    [] tag = "Definition" -> <<"language", "sourceSense">>
    [] OTHER -> <<>>

\* own attributes first, then the descriptive metadata in the order of the
\* enumeration, then status, note and confidence
AttrOrder(tag) ==
  [i \in 1..Len(OwnAttrs(tag)) |-> A(OwnAttrs(tag)[i])]
  \o [i \in 1..Len(MetaFields) |-> <<"dc", MetaFields[i]>>]

AttrNames(elem) == [a \in 1..Len(elem.attrs) |-> elem.attrs[a][1]]

InAttrOrder(elem) == AttrNames(elem) = Filter(AttrOrder(elem.tag), Range(AttrNames(elem)))

\* C26: in the file dump writes, the attributes of every Lexicon,
\* LexicalEntry, Sense, Synset, SenseRelation, SynsetRelation and Definition
\* are its own attributes in their fixed order followed by the metadata
\* attributes in the order of the enumeration: no own attribute comes after
\* a metadata attribute.
C26_AttributeOrder ==
  (pc = "dumped" /\ out.err = "") =>
    \A i \in 1..Len(StartElems(out.file.root)) :
      StartElems(out.file.root)[i].tag
          \in {"Lexicon", "LexicalEntry", "Sense", "Synset", "SenseRelation",
               "SynsetRelation", "Definition"}
        => InAttrOrder(StartElems(out.file.root)[i])

\* ---------------------------------------------------------------------
\* Properties of the retention of the tree during load.

\* the children of an element that are attached to it and have been read to
\* their end tag
Retained(elem) == children[elem] \cap consumed

\* C27: at every step of load, each resource element holds at most one
\* entry or synset that has been read to its end tag, and the root at most
\* one such resource, however many the document has; once the entry, synset
\* or lexicon is appended, its parent holds none.
C27_BoundedRetention ==
  pc \in {"next", "append", "append lexicon"} =>
    /\ \A elem \in 1..Len(events) : Cardinality(Retained(elem)) <= 1
    /\ pc = "next" => \A elem \in 1..Len(events) : Retained(elem) = {}
    /\ pc = "next" /\ appended # <<>> /\ built < cursor =>
         children[Nodes(file)[appended[Len(appended)]].parent] = {}

\* the third entry or synset of a resource has been read to its end tag and
\* is the one child the resource holds that has been, with another child
\* the parser has attached already
C27_ThirdEntryRead ==
  /\ pc = "append"
  /\ Len(appended) = 2
  /\ Cardinality(Retained(Nodes(file)[cursor - 1].parent)) = 1
  /\ Cardinality(children[Nodes(file)[cursor - 1].parent]) >= 2

====
